---------------------------- MODULE Spec2Model ----------------------------
(***************************************************************************)
(* A model of the schema-directed SOAP marshalling engine of               *)
(* gam_apps_script: SoapCreator (object literal -> XML), SoapParser (XML   *)
(* element -> object literal) and the property resolver they share.        *)
(*                                                                         *)
(* JavaScript strings that the code inspects character by character (text  *)
(* content, scalar values) are sequences of one-character strings; names   *)
(* the code only compares (type, property, tag and attribute names) are    *)
(* atomic strings.  An XML string is a sequence of tokens (start tag, text,*)
(* end tag), so that string concatenation is sequence concatenation.       *)
(***************************************************************************)
EXTENDS Integers, Sequences, FiniteSets, TLC

(***************************************************************************)
(* JavaScript values.                                                      *)
(***************************************************************************)
Undefined == [t |-> "undef"]
Null == [t |-> "null"]
NaN == [t |-> "nan"]
Bool(b) == [t |-> "bool", b |-> b]
Str(s) == [t |-> "str", s |-> s]
Arr(items) == [t |-> "arr", items |-> items]
\* An object literal: its fields in insertion order.
Obj(fields) == [t |-> "obj", fields |-> fields]
Field(k, v) == [k |-> k, v |-> v]

RECURSIVE Pow10(_)
Pow10(n) == IF n = 0 THEN 1 ELSE 10 * Pow10(n - 1)

\* A finite number m / 10^e, kept normalised (e = 0 or m not a multiple of 10).
RECURSIVE Num(_, _)
Num(m, e) ==
  IF e > 0 /\ m % 10 = 0 THEN Num(m \div 10, e - 1)
  ELSE [t |-> "num", m |-> m, e |-> e]

IntNum(n) == Num(n, 0)

Keys(obj) == [i \in 1..Len(obj.fields) |-> obj.fields[i].k]
KeySet(obj) == {obj.fields[i].k : i \in 1..Len(obj.fields)}
HasKey(obj, k) == k \in KeySet(obj)
\* obj[k]
Get(obj, k) ==
  IF HasKey(obj, k)
  THEN obj.fields[CHOOSE i \in 1..Len(obj.fields) : obj.fields[i].k = k].v
  ELSE Undefined
\* obj[k] = v : an existing key keeps its place, a new key is appended.
Put(obj, k, v) ==
  IF HasKey(obj, k)
  THEN Obj([i \in 1..Len(obj.fields) |->
              IF obj.fields[i].k = k THEN Field(k, v) ELSE obj.fields[i]])
  ELSE Obj(Append(obj.fields, Field(k, v)))

(***************************************************************************)
(* Strings and numbers: String(value) and Number(value).                   *)
(***************************************************************************)
Digits == <<"0", "1", "2", "3", "4", "5", "6", "7", "8", "9">>
IsDigit(c) == \E i \in 1..10 : Digits[i] = c
DigitVal(c) == (CHOOSE i \in 1..10 : Digits[i] = c) - 1
IsSpace(c) == c = " "

RECURSIVE TrimLeft(_)
TrimLeft(s) == IF s # <<>> /\ IsSpace(Head(s)) THEN TrimLeft(Tail(s)) ELSE s
RECURSIVE TrimRight(_)
TrimRight(s) ==
  IF s # <<>> /\ IsSpace(s[Len(s)]) THEN TrimRight(SubSeq(s, 1, Len(s) - 1)) ELSE s
Trim(s) == TrimRight(TrimLeft(s))

RECURSIVE DigitsVal(_)
DigitsVal(s) ==
  IF s = <<>> THEN 0 ELSE 10 * DigitsVal(SubSeq(s, 1, Len(s) - 1)) + DigitVal(s[Len(s)])

\* The decimal digits of a natural number.
RECURSIVE NatToString(_)
NatToString(n) ==
  IF n < 10 THEN <<Digits[n + 1]>> ELSE NatToString(n \div 10) \o <<Digits[(n % 10) + 1]>>

RECURSIVE PadLeft(_, _)
PadLeft(s, n) == IF Len(s) >= n THEN s ELSE PadLeft(<<"0">> \o s, n)

\* Number.prototype.toString for a finite number (decimal notation).
NumberToString(n) ==
  LET abs == IF n.m < 0 THEN 0 - n.m ELSE n.m
      sign == IF n.m < 0 THEN <<"-">> ELSE <<>>
      ip == abs \div Pow10(n.e)
      fp == abs % Pow10(n.e)
  IN  IF n.e = 0 THEN sign \o NatToString(ip)
      ELSE sign \o NatToString(ip) \o <<".">> \o PadLeft(NatToString(fp), n.e)

\* StringToNumber: white space is trimmed, the empty string is 0, a signed
\* decimal literal is its value and anything else is NaN.  (Exponents, hex
\* literals and Infinity use characters no modelled string contains.)
StringToNumber(s) ==
  LET t == Trim(s)
      signed == t # <<>> /\ Head(t) \in {"-", "+"}
      body == IF signed THEN Tail(t) ELSE t
      dots == {i \in 1..Len(body) : body[i] = "."}
      dot == IF dots = {} THEN Len(body) + 1 ELSE CHOOSE i \in dots : TRUE
      ip == SubSeq(body, 1, dot - 1)
      fp == SubSeq(body, dot + 1, Len(body))
      wellFormed ==
        /\ Cardinality(dots) <= 1
        /\ \A i \in 1..Len(body) : IsDigit(body[i]) \/ body[i] = "."
        /\ Len(ip) + Len(fp) > 0
      mag == DigitsVal(ip) * Pow10(Len(fp)) + DigitsVal(fp)
  IN  IF t = <<>> THEN IntNum(0)
      ELSE IF ~wellFormed THEN NaN
      ELSE Num(IF signed /\ Head(t) = "-" THEN 0 - mag ELSE mag, Len(fp))

S_true == <<"t", "r", "u", "e">>
S_false == <<"f", "a", "l", "s", "e">>
S_null == <<"n", "u", "l", "l">>
S_undefined == <<"u", "n", "d", "e", "f", "i", "n", "e", "d">>
S_NaN == <<"N", "a", "N">>
S_object == <<"[", "o", "b", "j", "e", "c", "t", " ", "O", "b", "j", "e", "c", "t", "]">>

\* String(value)
RECURSIVE JsString(_)
JsString(v) ==
  CASE v.t = "undef" -> S_undefined
    [] v.t = "null" -> S_null
    [] v.t = "nan" -> S_NaN
    [] v.t = "bool" -> IF v.b THEN S_true ELSE S_false
    [] v.t = "num" -> NumberToString(v)
    [] v.t = "str" -> v.s
    [] v.t = "obj" -> S_object
    [] v.t = "arr" ->
         \* Array.prototype.join(','): null and undefined entries are empty.
         LET item(i) == IF v.items[i].t \in {"undef", "null"} THEN <<>>
                        ELSE JsString(v.items[i])
             join[i \in 0..Len(v.items)] ==
               IF i = 0 THEN <<>>
               ELSE IF i = 1 THEN item(1)
               ELSE join[i - 1] \o <<",">> \o item(i)
         IN  join[Len(v.items)]

\* Number(value)
JsNumber(v) ==
  CASE v.t = "undef" -> NaN
    [] v.t = "null" -> IntNum(0)
    [] v.t = "nan" -> NaN
    [] v.t = "bool" -> IF v.b THEN IntNum(1) ELSE IntNum(0)
    [] v.t = "num" -> v
    [] v.t = "str" -> StringToNumber(v.s)
    [] v.t = "obj" -> NaN
    [] v.t = "arr" -> StringToNumber(JsString(v))

IsNaN(v) == v.t = "nan"
\* Number.isInteger
IsInteger(v) == v.t = "num" /\ v.e = 0
IsArray(v) == v.t = "arr"

(***************************************************************************)
(* The type graph (soap_type_index.ts).  Types are shared by reference and  *)
(* type names are unique in an index, so a reference is a type name.  A     *)
(* SoapPropertyIndex is the sequence of its properties in insertion order.  *)
(***************************************************************************)
SoapPrimitiveType == {"string", "boolean", "int", "long", "double"}

Prop(name, type, isArray, isOptional) ==
  [name |-> name, type |-> type, isArray |-> isArray, isOptional |-> isOptional]

NoType == "(none)"
\* childTypes is optional: hasChildTypes tells an absent list from an empty one.
ObjectType(name, properties, baseType, hasChildTypes, childTypes) ==
  [name |-> name, properties |-> properties, baseType |-> baseType,
   hasChildTypes |-> hasChildTypes, childTypes |-> childTypes]

S_val1 == <<"v", "a", "l", "1">>
S_val2 == <<"v", "a", "l", "2">>
\* The enums of the index, by name.
enums == [n \in {"EnumType"} |-> [name |-> n, enumerations |-> <<S_val1, S_val2>>]]

\* The object types of the index, by name: the types of the unit tests, and
\* Holder / ShadowBase / ShadowChild in the form createWithServiceUrl builds
\* (childTypes always a list).
serviceTypes ==
  LET req(n, t) == Prop(n, t, FALSE, FALSE)
      opt(n, t) == Prop(n, t, FALSE, TRUE)
      arr(n, t) == Prop(n, t, TRUE, TRUE)
      all == <<
        ObjectType("TypeWithMultipleProperties",
                   <<req("prop1", "string"), req("prop2", "string")>>, NoType, FALSE, <<>>),
        ObjectType("AnimalType", <<req("name", "string")>>, NoType, TRUE, <<"DogType">>),
        ObjectType("DogType", <<req("breed", "string")>>, "AnimalType", TRUE,
                   <<"HerdingDogType">>),
        ObjectType("HerdingDogType", <<req("role", "string")>>, "DogType", FALSE, <<>>),
        ObjectType("TypeWithAnimal", <<req("animal", "AnimalType")>>, NoType, FALSE, <<>>),
        ObjectType("TypeWithDog", <<req("dog", "DogType")>>, NoType, FALSE, <<>>),
        ObjectType("Value", <<>>, NoType, TRUE, <<"NumberValue", "TextValue">>),
        ObjectType("NumberValue", <<req("value", "string")>>, "Value", FALSE, <<>>),
        ObjectType("TextValue", <<req("value", "string")>>, "Value", FALSE, <<>>),
        ObjectType("TypeWithValueType", <<req("value", "Value")>>, NoType, FALSE, <<>>),
        ObjectType("Holder",
                   <<opt("s", "string"), opt("b", "boolean"), opt("i", "int"),
                     opt("l", "long"), opt("d", "double"), opt("en", "EnumType"),
                     arr("ss", "string"), arr("bs", "boolean"), arr("is", "int"),
                     arr("ls", "long"), arr("ds", "double"), arr("ens", "EnumType"),
                     arr("dogs", "DogType")>>,
                   NoType, TRUE, <<>>),
        ObjectType("ShadowBase", <<opt("a", "string"), opt("b", "string")>>, NoType, TRUE,
                   <<"ShadowChild">>),
        ObjectType("ShadowChild", <<opt("a", "int"), opt("c", "string")>>, "ShadowBase",
                   TRUE, <<>>),
        ObjectType("VehicleType", <<opt("id", "string")>>, NoType, TRUE,
                   <<"CarType", "BoatType">>),
        ObjectType("CarType", <<req("doors", "string")>>, "VehicleType", FALSE, <<>>),
        ObjectType("BoatType", <<opt("sails", "string")>>, "VehicleType", FALSE, <<>>),
        ObjectType("NodeType", <<>>, NoType, TRUE, <<"BranchType", "LeafType">>),
        ObjectType("BranchType", <<>>, "NodeType", TRUE, <<"TwigType">>),
        ObjectType("TwigType", <<req("label", "string")>>, "BranchType", FALSE, <<>>),
        ObjectType("LeafType", <<req("label", "string")>>, "NodeType", FALSE, <<>>),
        \* the types of a service: an operation, its response, the fault types
        ObjectType("getAnimal", <<req("name", "string"), opt("limit", "int")>>, NoType,
                   TRUE, <<>>),
        ObjectType("getAnimalResponse", <<opt("rval", "AnimalType")>>, NoType, TRUE, <<>>),
        ObjectType("ApplicationException", <<opt("message", "string")>>, NoType, TRUE,
                   <<"ApiException">>),
        ObjectType("ApiException", <<arr("errors", "ApiError")>>, "ApplicationException",
                   TRUE, <<>>),
        ObjectType("ApiError", <<opt("fieldPath", "string")>>, NoType, TRUE,
                   <<"AuthenticationError">>),
        ObjectType("AuthenticationError", <<opt("reason", "string")>>, "ApiError", TRUE,
                   <<>>) >>
  IN  [n \in {all[i].name : i \in 1..Len(all)} |->
         all[CHOOSE i \in 1..Len(all) : all[i].name = n]]

TypeNames == DOMAIN serviceTypes

isSoapPrimitiveType(soapType) == soapType \in SoapPrimitiveType
isSoapEnumType(soapType) == soapType \in DOMAIN enums
isSoapObjectType(soapType) == soapType \in DOMAIN serviceTypes

PropNames(props) == {props[i].name : i \in 1..Len(props)}
PropNamed(props, name) == props[CHOOSE i \in 1..Len(props) : props[i].name = name]

\* {...under, ...over}: the keys of under keep their place and take over's
\* value when over has them; the other keys of over follow in over's order.
SpreadMerge(under, over) ==
  LET kept == [i \in 1..Len(under) |->
                 IF under[i].name \in PropNames(over)
                 THEN PropNamed(over, under[i].name) ELSE under[i]]
      isNew(p) == p.name \notin PropNames(under)
  IN  kept \o SelectSeq(over, isNew)

\* A variant that spreads the derived type's properties first:
\* {...allProperties, ...baseType.properties}.
RECURSIVE MergeBaseChain_OwnFirst(_, _)
MergeBaseChain_OwnFirst(allProperties, baseType) ==
  IF baseType = NoType THEN allProperties
  ELSE MergeBaseChain_OwnFirst(
         SpreadMerge(allProperties, serviceTypes[baseType].properties),
         serviceTypes[baseType].baseType)

RECURSIVE MergeBaseChain(_, _)
MergeBaseChain(allProperties, baseType) ==
  IF baseType = NoType THEN allProperties
  ELSE MergeBaseChain(SpreadMerge(serviceTypes[baseType].properties, allProperties),
                      serviceTypes[baseType].baseType)

getAllPropertiesForType(soapObjectType) ==
  MergeBaseChain(serviceTypes[soapObjectType].properties,
                 serviceTypes[soapObjectType].baseType)

(***************************************************************************)
(* XML text.  A start tag carries the value of its xsi:type attribute ("" *)
(* when it has none).                                                      *)
(***************************************************************************)
Open(tag, typeAttr) == [k |-> "open", tag |-> tag, type |-> typeAttr]
Close(tag) == [k |-> "close", tag |-> tag]
Text(s) == [k |-> "text", s |-> s]

EscapeChar(c) ==
  CASE c = "&" -> <<"&", "a", "m", "p", ";">>
    [] c = "<" -> <<"&", "l", "t", ";">>
    [] c = ">" -> <<"&", "g", "t", ";">>
    [] c = "\"" -> <<"&", "q", "u", "o", "t", ";">>
    [] c = "'" -> <<"&", "a", "p", "o", "s", ";">>
    [] OTHER -> <<c>>

RECURSIVE Escape(_)
Escape(s) == IF s = <<>> THEN <<>> ELSE EscapeChar(Head(s)) \o Escape(Tail(s))

\* A string as XML text: the empty string adds nothing to the document.
TextOf(s) == IF s = <<>> THEN <<>> ELSE <<Text(s)>>

(***************************************************************************)
(* SoapCreator.  Every operation returns a record: ok, the error thrown   *)
(* (err), the resolved type, the XML, the working key set as the call left *)
(* it (a Set the callee mutates in place) and the allPropertiesCache.      *)
(***************************************************************************)
Ok(actualType, xml, keys, cache) ==
  [ok |-> TRUE, err |-> "", actualType |-> actualType, xml |-> xml, keys |-> keys,
   cache |-> cache]
Err(err, keys, cache) ==
  [ok |-> FALSE, err |-> err, actualType |-> NoType, xml |-> <<>>, keys |-> keys,
   cache |-> cache]

E_Invalid == "Invalid usage of type"
E_Required == "is required but the value is undefined"
E_NotArray == "is an array but the value is not an array"
E_IsArray == "is not an array but the value is an array"
E_Unrecognized == "Unrecognized properties"
E_Unsupported == "Unsupported type"
E_TypeError == "TypeError"
\* `throw lastError` with lastError never assigned throws the value undefined.
E_Undefined == "undefined"

None == [some |-> FALSE]
Some(v) == [some |-> TRUE, v |-> v]

\* A variant that takes every value for an enum.
convertSimpleSoapTypeToXmlString_AnyEnum(simpleSoapType, value) ==
  LET validValue ==
        CASE simpleSoapType = "int" -> IsInteger(JsNumber(value))
          [] simpleSoapType \in {"double", "long"} -> ~IsNaN(JsNumber(value))
          [] simpleSoapType = "boolean" -> JsString(value) \in {S_true, S_false}
          [] OTHER -> TRUE
  IN  IF ~validValue THEN [ok |-> FALSE, err |-> E_Invalid, xml |-> <<>>]
      ELSE [ok |-> TRUE, err |-> "",
            xml |-> IF value = Null THEN <<>> ELSE TextOf(Escape(JsString(value)))]

convertSimpleSoapTypeToXmlString(simpleSoapType, value) ==
  LET validValue ==
        CASE simpleSoapType = "int" -> IsInteger(JsNumber(value))
          [] simpleSoapType \in {"double", "long"} -> ~IsNaN(JsNumber(value))
          [] simpleSoapType = "boolean" -> JsString(value) \in {S_true, S_false}
          [] simpleSoapType = "string" -> TRUE
          [] OTHER ->
               \E i \in 1..Len(enums[simpleSoapType].enumerations) :
                 enums[simpleSoapType].enumerations[i] = JsString(value)
      escapedVal == Escape(JsString(value))
  IN  IF ~validValue THEN [ok |-> FALSE, err |-> E_Invalid, xml |-> <<>>]
      ELSE [ok |-> TRUE, err |-> "",
            xml |-> IF value = Null THEN <<>> ELSE TextOf(escapedVal)]

\* A variant without the disambiguation: no child type is ever skipped.
hasValueConflict_Never(soapObjectType, value) == FALSE

hasValueConflict(soapObjectType, value) ==
  IF soapObjectType = "NumberValue"
  THEN Get(value, "value").t \notin {"num", "nan"}
  ELSE FALSE

\* getAllPropertiesForTypeWithCache memoizing the own properties only.
getAllPropertiesForTypeWithCache_OwnOnly(soapObjectType, cache) ==
  IF soapObjectType \in DOMAIN cache
  THEN [props |-> cache[soapObjectType], cache |-> cache]
  ELSE [props |-> getAllPropertiesForType(soapObjectType),
        cache |-> (soapObjectType :> serviceTypes[soapObjectType].properties) @@ cache]

getAllPropertiesForTypeWithCache(soapObjectType, cache) ==
  IF soapObjectType \in DOMAIN cache
  THEN [props |-> cache[soapObjectType], cache |-> cache]
  ELSE LET allProperties == getAllPropertiesForType(soapObjectType)
       IN  [props |-> allProperties,
            cache |-> (soapObjectType :> allProperties) @@ cache]

\* Object.keys(value) for the values the model passes where an object is
\* expected: an object literal, or a number or boolean (no own keys).
ObjectKeys(value) == IF value.t = "obj" THEN KeySet(value) ELSE {}

RECURSIVE convertSoapObjectPropertyToXmlString(_, _, _)
RECURSIVE PropertyEntries(_, _, _, _, _)
RECURSIVE convertSoapValueToXmlString(_, _, _)
RECURSIVE continueConversionWithChildTypes(_, _, _, _, _)
RECURSIVE ChildTypes(_, _, _, _, _, _, _)
RECURSIVE convertSoapObjectToXmlStringImpl(_, _, _, _, _, _)
RECURSIVE ObjectProperties(_, _, _, _, _, _)

\* A variant that writes the type attribute for every object-typed entry,
\* resolved to the declared type or not.
PropertyEntry_AlwaysTyped(soapObjectTypeProperty, valueAsArray, i, valueSoapString, r) ==
  IF ~r.ok THEN r
  ELSE PropertyEntries(
         soapObjectTypeProperty, valueAsArray, i + 1,
         valueSoapString
           \o << IF isSoapObjectType(r.actualType)
                 THEN Open(soapObjectTypeProperty.name, r.actualType)
                 ELSE Open(soapObjectTypeProperty.name, "") >>
           \o r.xml
           \o <<Close(soapObjectTypeProperty.name)>>,
         r.cache)

\* One entry of valueAsArray converted (r): its start tag, value and end tag
\* are appended and the loop goes on; an error ends the loop.
PropertyEntry(soapObjectTypeProperty, valueAsArray, i, valueSoapString, r) ==
  IF ~r.ok THEN r
  ELSE PropertyEntries(
         soapObjectTypeProperty, valueAsArray, i + 1,
         valueSoapString
           \o << IF /\ isSoapObjectType(r.actualType)
                    /\ soapObjectTypeProperty.type # r.actualType
                 THEN Open(soapObjectTypeProperty.name, r.actualType)
                 ELSE Open(soapObjectTypeProperty.name, "") >>
           \o r.xml
           \o <<Close(soapObjectTypeProperty.name)>>,
         r.cache)

\* The loop over valueAsArray, from entry i on.
PropertyEntries(soapObjectTypeProperty, valueAsArray, i, valueSoapString, cache) ==
  IF i > Len(valueAsArray) THEN Ok(NoType, valueSoapString, {}, cache)
  ELSE PropertyEntry(soapObjectTypeProperty, valueAsArray, i, valueSoapString,
                     convertSoapValueToXmlString(soapObjectTypeProperty.type,
                                                 valueAsArray[i], cache))

\* convertSoapObjectPropertyToXmlString without the two array checks.
convertSoapObjectPropertyToXmlString_AnyShape(soapObjectTypeProperty, value, cache) ==
  IF value = Undefined /\ soapObjectTypeProperty.isOptional THEN Ok(NoType, <<>>, {}, cache)
  ELSE IF value = Undefined /\ ~soapObjectTypeProperty.isOptional
    THEN Err(E_Required, {}, cache)
  ELSE PropertyEntries(soapObjectTypeProperty,
                       IF IsArray(value) THEN value.items ELSE <<value>>, 1, <<>>, cache)

convertSoapObjectPropertyToXmlString(soapObjectTypeProperty, value, cache) ==
  IF value = Undefined /\ soapObjectTypeProperty.isOptional THEN Ok(NoType, <<>>, {}, cache)
  ELSE IF value = Undefined /\ ~soapObjectTypeProperty.isOptional
    THEN Err(E_Required, {}, cache)
  ELSE IF soapObjectTypeProperty.isArray /\ ~IsArray(value) THEN Err(E_NotArray, {}, cache)
  ELSE IF ~soapObjectTypeProperty.isArray /\ IsArray(value) THEN Err(E_IsArray, {}, cache)
  ELSE PropertyEntries(soapObjectTypeProperty,
                       IF IsArray(value) THEN value.items ELSE <<value>>, 1, <<>>, cache)

SimpleResult(soapType, r, cache) ==
  IF r.ok THEN Ok(soapType, r.xml, {}, cache) ELSE Err(r.err, {}, cache)

convertSoapValueToXmlString(soapType, value, cache) ==
  IF isSoapObjectType(soapType)
  THEN convertSoapObjectToXmlStringImpl(soapType, value, <<>>, None, None, cache)
  ELSE IF isSoapEnumType(soapType) \/ isSoapPrimitiveType(soapType)
  THEN SimpleResult(soapType, convertSimpleSoapTypeToXmlString(soapType, value), cache)
  ELSE Err(E_Unsupported, {}, cache)

\* One candidate tried (r): its result is returned, or its error is kept as
\* lastError and the loop goes on.  keysToParse is one Set shared by every
\* iteration: what a failed candidate deleted from it stays deleted.
ChildTypeTried(soapObjectTypes, i, value, soapXml, r) ==
  IF r.ok THEN r
  ELSE ChildTypes(soapObjectTypes, i + 1, value, soapXml, r.keys, r.err, r.cache)

\* The loop over soapObjectTypes, from candidate i on.
ChildTypes(soapObjectTypes, i, value, soapXml, keysToParse, lastError, cache) ==
  IF i > Len(soapObjectTypes) THEN Err(lastError, keysToParse, cache)
  ELSE IF hasValueConflict(soapObjectTypes[i], value)
  THEN ChildTypes(soapObjectTypes, i + 1, value, soapXml, keysToParse, lastError, cache)
  ELSE ChildTypeTried(
         soapObjectTypes, i, value, soapXml,
         convertSoapObjectToXmlStringImpl(
           soapObjectTypes[i], value, soapXml,
           Some(serviceTypes[soapObjectTypes[i]].properties), Some(keysToParse), cache))

\* The sequence in the opposite order.
Reversed(seq) == [i \in 1..Len(seq) |-> seq[Len(seq) + 1 - i]]

\* continueConversionWithChildTypes trying the last child first.
continueConversionWithChildTypes_LastFirst(soapObjectTypes, value, soapXml, keysToParse, cache) ==
  ChildTypes(Reversed(soapObjectTypes), 1, value, soapXml, keysToParse, E_Undefined, cache)

continueConversionWithChildTypes(soapObjectTypes, value, soapXml, keysToParse, cache) ==
  ChildTypes(soapObjectTypes, 1, value, soapXml, keysToParse, E_Undefined, cache)

\* One property present in the value converted (r): its XML is appended, its
\* key deleted from valueKeysSet, and the loop goes on; an error ends it.
ObjectProperty(allProperties, i, value, soapXmlString, valueKeysSet, r) ==
  IF ~r.ok THEN Err(r.err, valueKeysSet, r.cache)
  ELSE ObjectProperties(allProperties, i + 1, value, soapXmlString \o r.xml,
                        valueKeysSet \ {allProperties[i].name}, r.cache)

\* A variant that passes over an absent property, required or not.
RECURSIVE ObjectProperties_NoRequired(_, _, _, _, _, _)
ObjectProperties_NoRequired(allProperties, i, value, soapXmlString, valueKeysSet, cache) ==
  IF i > Len(allProperties) THEN Ok(NoType, soapXmlString, valueKeysSet, cache)
  ELSE IF value.t # "obj" THEN Err(E_TypeError, valueKeysSet, cache)
  ELSE IF HasKey(value, allProperties[i].name)
  THEN ObjectProperty(allProperties, i, value, soapXmlString, valueKeysSet,
                      convertSoapObjectPropertyToXmlString(
                        allProperties[i], Get(value, allProperties[i].name), cache))
  ELSE ObjectProperties_NoRequired(allProperties, i + 1, value, soapXmlString,
                                   valueKeysSet, cache)

\* The loop over Object.entries(allProperties), from property i on.
ObjectProperties(allProperties, i, value, soapXmlString, valueKeysSet, cache) ==
  IF i > Len(allProperties) THEN Ok(NoType, soapXmlString, valueKeysSet, cache)
  ELSE IF value.t # "obj" THEN Err(E_TypeError, valueKeysSet, cache)
  ELSE IF HasKey(value, allProperties[i].name)
  THEN ObjectProperty(allProperties, i, value, soapXmlString, valueKeysSet,
                      convertSoapObjectPropertyToXmlString(
                        allProperties[i], Get(value, allProperties[i].name), cache))
  ELSE IF ~allProperties[i].isOptional THEN Err(E_Required, valueKeysSet, cache)
  ELSE ObjectProperties(allProperties, i + 1, value, soapXmlString, valueKeysSet, cache)

\* The child search has ended (c).  It worked on a copy of the key set
\* (new Set([...valueKeysSet])), so the caller's set is as the loop left it.
ChildSearchDone(valueKeysSet, c) ==
  IF c.ok THEN [c EXCEPT !.keys = valueKeysSet]
  ELSE Err(c.err, valueKeysSet, c.cache)

\* The properties are converted (r): the tail of the function.
PropertiesDone(soapObjectType, value, r) ==
  IF ~r.ok THEN r
  ELSE IF r.keys = {} THEN Ok(soapObjectType, r.xml, r.keys, r.cache)
  ELSE IF serviceTypes[soapObjectType].hasChildTypes
  THEN ChildSearchDone(r.keys,
                       continueConversionWithChildTypes(
                         serviceTypes[soapObjectType].childTypes, value, r.xml, r.keys,
                         r.cache))
  ELSE Err(E_Unrecognized, r.keys, r.cache)

\* allProperties = propertiesToParse || getAllPropertiesForTypeWithCache(type)
PropertiesToConvert(soapObjectType, propertiesToParse, cache) ==
  IF propertiesToParse.some THEN [props |-> propertiesToParse.v, cache |-> cache]
  ELSE getAllPropertiesForTypeWithCache(soapObjectType, cache)

ConvertProperties(soapObjectType, value, soapXml, valueKeysSet, looked) ==
  PropertiesDone(soapObjectType, value,
                 ObjectProperties(looked.props, 1, value, soapXml, valueKeysSet,
                                  looked.cache))

convertSoapObjectToXmlStringImpl(soapObjectType, value, soapXml, propertiesToParse, keysToParse, cache) ==
  \* Object.keys(null) raises a TypeError.
  IF value.t \in {"null", "undef"} /\ ~keysToParse.some
  THEN Err(E_TypeError, {}, cache)
  ELSE ConvertProperties(soapObjectType, value, soapXml,
                         IF keysToParse.some THEN keysToParse.v ELSE ObjectKeys(value),
                         PropertiesToConvert(soapObjectType, propertiesToParse, cache))

convertSoapObjectToXmlString(soapObjectType, value, cache) ==
  convertSoapObjectToXmlStringImpl(soapObjectType, value, <<>>, None, None, cache)

(***************************************************************************)
(* XML elements (GoogleAppsScript.XML_Service.Element) and XmlService.parse *)
(* on the encoder's output.                                                *)
(***************************************************************************)
Attr(name, value) == [name |-> name, value |-> value]
Element(name, attrs, text, children) ==
  [name |-> name, attrs |-> attrs, text |-> text, children |-> children]
Leaf(name, text) == Element(name, <<>>, text, <<>>)

StartsWith(s, p) == Len(s) >= Len(p) /\ SubSeq(s, 1, Len(p)) = p
Drop(s, n) == SubSeq(s, n + 1, Len(s))

RECURSIVE Unescape(_)
Unescape(s) ==
  IF s = <<>> THEN <<>>
  ELSE IF StartsWith(s, EscapeChar("&")) THEN <<"&">> \o Unescape(Drop(s, 5))
  ELSE IF StartsWith(s, EscapeChar("<")) THEN <<"<">> \o Unescape(Drop(s, 4))
  ELSE IF StartsWith(s, EscapeChar(">")) THEN <<">">> \o Unescape(Drop(s, 4))
  ELSE IF StartsWith(s, EscapeChar("\"")) THEN <<"\"">> \o Unescape(Drop(s, 6))
  ELSE IF StartsWith(s, EscapeChar("'")) THEN <<"'">> \o Unescape(Drop(s, 6))
  ELSE <<Head(s)>> \o Unescape(Tail(s))

\* The index of the end tag matching the start tag at tokens[1].
RECURSIVE MatchingClose(_, _, _)
MatchingClose(tokens, i, depth) ==
  IF tokens[i].k = "open" THEN MatchingClose(tokens, i + 1, depth + 1)
  ELSE IF tokens[i].k = "close"
    THEN IF depth = 1 THEN i ELSE MatchingClose(tokens, i + 1, depth - 1)
  ELSE MatchingClose(tokens, i + 1, depth)

\* The text directly inside an element's content.
RECURSIVE ContentText(_)
ContentText(tokens) ==
  IF tokens = <<>> THEN <<>>
  ELSE IF tokens[1].k = "text" THEN Unescape(tokens[1].s) \o ContentText(Tail(tokens))
  ELSE ContentText(Drop(tokens, MatchingClose(tokens, 1, 0)))

\* The child elements of an element's content, in document order.
RECURSIVE ParseContent(_)
ParseContent(tokens) ==
  IF tokens = <<>> THEN <<>>
  ELSE IF tokens[1].k = "text" THEN ParseContent(Tail(tokens))
  ELSE LET end == MatchingClose(tokens, 1, 0)
           inner == SubSeq(tokens, 2, end - 1)
           attrs == IF tokens[1].type = "" THEN <<>>
                    ELSE <<Attr("type", tokens[1].type)>>
       IN  <<Element(tokens[1].tag, attrs, ContentText(inner), ParseContent(inner))>>
             \o ParseContent(Drop(tokens, end))

\* The element <name>xml</name>, parsed.
ParseWrapped(name, xml) == Element(name, <<>>, ContentText(xml), ParseContent(xml))

(***************************************************************************)
(* JSON.stringify and JSON.parse.  A JSON text is modelled by the value it  *)
(* denotes: stringify drops the keys whose value is undefined and writes   *)
(* NaN (and an undefined array entry) as null.                             *)
(***************************************************************************)
RECURSIVE JsonValue(_)
JsonValue(v) ==
  CASE v.t = "obj" ->
         LET kept == SelectSeq(v.fields, LAMBDA f : f.v.t # "undef")
         IN  Obj([i \in 1..Len(kept) |-> Field(kept[i].k, JsonValue(kept[i].v))])
    [] v.t = "arr" -> Arr([i \in 1..Len(v.items) |-> JsonValue(v.items[i])])
    [] v.t \in {"nan", "undef"} -> Null
    [] OTHER -> v

JsonStringify(v) == [json |-> JsonValue(v)]
JsonParse(text) == text.json

(***************************************************************************)
(* SoapParser.  Every operation returns a record: ok, the error thrown,    *)
(* the value, validPropertiesCache (vcache) and convertedObjectCache       *)
(* (ocache, keyed by <<declared type name, element>>).                     *)
(***************************************************************************)
POk(value, vcache, ocache) ==
  [ok |-> TRUE, err |-> "", value |-> value, vcache |-> vcache, ocache |-> ocache]
PErr(err, vcache, ocache) ==
  [ok |-> FALSE, err |-> err, value |-> Undefined, vcache |-> vcache, ocache |-> ocache]

E_UnsupportedPrimitive == "Unsupported primitive type"
E_UnrecognizedType == "Unrecognized type"
E_NotValid == "is not valid"

convertXmlElementToPrimitiveType(element, simpleSoapType) ==
  LET value == element.text
      typeAsPrimitive == IF isSoapEnumType(simpleSoapType) THEN "string" ELSE simpleSoapType
  IN  IF value = <<>> THEN [ok |-> TRUE, err |-> "", value |-> Undefined]
      ELSE IF typeAsPrimitive \in {"int", "double", "long"}
        THEN [ok |-> TRUE, err |-> "", value |-> StringToNumber(value)]
      ELSE IF typeAsPrimitive = "boolean"
        THEN [ok |-> TRUE, err |-> "", value |-> Bool(value = S_true)]
      ELSE IF typeAsPrimitive = "string"
        THEN [ok |-> TRUE, err |-> "", value |-> Str(value)]
      ELSE [ok |-> FALSE, err |-> E_UnsupportedPrimitive, value |-> Undefined]

RECURSIVE getAllValidPropertiesForType(_, _, _)
RECURSIVE ValidPropertiesOfChildren(_, _, _, _)
RECURSIVE convertXmlElementToSoapType(_, _, _, _)
RECURSIVE convertXmlElementToObjectLiteral(_, _, _, _)
RECURSIVE ElementChildren(_, _, _, _, _, _)

\* One child type's valid properties (c) spread over the properties so far.
ValidPropertiesOfChild(childTypes, i, properties, c) ==
  ValidPropertiesOfChildren(childTypes, i + 1, SpreadMerge(properties, c.props), c.vcache)

\* The forEach over childTypes, from child i on.
ValidPropertiesOfChildren(childTypes, i, properties, vcache) ==
  IF i > Len(childTypes) THEN [props |-> properties, vcache |-> vcache]
  ELSE ValidPropertiesOfChild(childTypes, i, properties,
                              getAllValidPropertiesForType(childTypes[i], FALSE, vcache))

\* validPropertiesCache.set(soapObjectType.name, properties); return properties
CacheValidProperties(soapObjectType, r) ==
  [props |-> r.props, vcache |-> (soapObjectType :> r.props) @@ r.vcache]

getAllValidPropertiesForType(soapObjectType, includeBaseTypes, vcache) ==
  IF soapObjectType \in DOMAIN vcache
  THEN [props |-> vcache[soapObjectType], vcache |-> vcache]
  ELSE CacheValidProperties(
         soapObjectType,
         \* an absent childTypes is an empty list: childTypes || []
         ValidPropertiesOfChildren(
           serviceTypes[soapObjectType].childTypes, 1,
           IF includeBaseTypes THEN getAllPropertiesForType(soapObjectType)
           ELSE serviceTypes[soapObjectType].properties,
           vcache))

PrimitiveResult(r, vcache, ocache) ==
  IF r.ok THEN POk(r.value, vcache, ocache) ELSE PErr(r.err, vcache, ocache)

convertXmlElementToSoapType(element, soapType, vcache, ocache) ==
  IF isSoapEnumType(soapType) THEN POk(Str(element.text), vcache, ocache)
  ELSE IF isSoapObjectType(soapType)
  THEN convertXmlElementToObjectLiteral(element, soapType, vcache, ocache)
  ELSE PrimitiveResult(convertXmlElementToPrimitiveType(element, soapType), vcache, ocache)

\* obj after one child of an array property is converted to childValue.
WithArrayEntry(obj, propertyName, childValue) ==
  Put(obj, propertyName,
      Arr(IF childValue # Undefined
          THEN Append(IF HasKey(obj, propertyName) THEN Get(obj, propertyName).items
                      ELSE <<>>, childValue)
          ELSE IF HasKey(obj, propertyName) THEN Get(obj, propertyName).items ELSE <<>>))

\* One child converted (r): it is stored in obj and the loop goes on.
ElementChild(children, i, allProperties, obj, property, r) ==
  IF ~r.ok THEN r
  ELSE ElementChildren(children, i + 1, allProperties,
                       IF property.isArray THEN WithArrayEntry(obj, property.name, r.value)
                       ELSE Put(obj, property.name, r.value),
                       r.vcache, r.ocache)

\* The loop over element.getChildren(), from child i on.
ElementChildren(children, i, allProperties, obj, vcache, ocache) ==
  IF i > Len(children) THEN POk(obj, vcache, ocache)
  ELSE IF children[i].name \notin PropNames(allProperties)
  THEN PErr(E_NotValid, vcache, ocache)
  ELSE ElementChild(children, i, allProperties, obj,
                    PropNamed(allProperties, children[i].name),
                    convertXmlElementToSoapType(
                      children[i], PropNamed(allProperties, children[i].name).type,
                      vcache, ocache))

\* element.getAttributes().find((a) => a.getName() === 'type')?.getValue()
TypeAttributeOf(element) ==
  LET found == {i \in 1..Len(element.attrs) : element.attrs[i].name = "type"}
  IN  IF found = {} THEN ""
      ELSE element.attrs[CHOOSE i \in found : \A j \in found : i <= j].value

\* convertedObjectCache.set(cacheKey, JSON.stringify(obj)); return obj
CacheConverted(cacheKey, r) ==
  IF ~r.ok THEN r
  ELSE POk(r.value, r.vcache, (cacheKey :> JsonStringify(r.value)) @@ r.ocache)

ConvertChildren(element, p, ocache) ==
  ElementChildren(element.children, 1, p.props, Obj(<<>>), p.vcache, ocache)

\* ConvertAs with an unknown type attribute ignored: the declared type of
\* the cache key is used instead.
ConvertAs_DeclaredFallback(element, cacheKey, actualSoapType, vcache, ocache) ==
  CacheConverted(
    cacheKey,
    ConvertChildren(element,
                    getAllValidPropertiesForType(
                      IF actualSoapType \in DOMAIN serviceTypes THEN actualSoapType
                      ELSE cacheKey[1],
                      TRUE, vcache),
                    ocache))

ConvertAs(element, cacheKey, actualSoapType, vcache, ocache) ==
  IF actualSoapType \notin DOMAIN serviceTypes
  THEN PErr(E_UnrecognizedType, vcache, ocache)
  ELSE CacheConverted(
         cacheKey,
         ConvertChildren(element,
                         getAllValidPropertiesForType(actualSoapType, TRUE, vcache),
                         ocache))

convertXmlElementToObjectLiteral(element, soapObjectType, vcache, ocache) ==
  IF <<soapObjectType, element>> \in DOMAIN ocache
  THEN POk(JsonParse(ocache[<<soapObjectType, element>>]), vcache, ocache)
  ELSE ConvertAs(element, <<soapObjectType, element>>,
                 IF TypeAttributeOf(element) # "" THEN TypeAttributeOf(element)
                 ELSE soapObjectType,
                 vcache, ocache)

(***************************************************************************)
(* The state machine: one SoapCreator and one SoapParser over the index,   *)
(* called by a client.  lastOp and prevOp are the client's record of its    *)
(* two latest calls (arguments and outcome).                               *)
(***************************************************************************)
VARIABLES
  allPropertiesCache,    \* SoapCreator.allPropertiesCache
  validPropertiesCache,  \* SoapParser.validPropertiesCache
  convertedObjectCache,  \* SoapParser.convertedObjectCache
  suite,                 \* the family of inputs this client uses
  lastOp,                \* the latest call and its outcome
  prevOp,                \* the call before it
  calls,                 \* the number of calls made
  scalar,                \* a scalar conversion in progress (SpecScalar)
  svc,                   \* AdManagerService: the latest performOperation (SpecService)
  report,                \* ReportDownloader.waitForReport in progress (SpecReport)
  builder                \* a StatementBuilder and its client (SpecStatement)

vars == <<allPropertiesCache, validPropertiesCache, convertedObjectCache, suite, lastOp,
          prevOp, calls, scalar, svc, report, builder>>

\* The number of encode/decode calls a client makes.
MaxCalls == 3

S_Fido == <<"F", "i", "d", "o">>
S_Lab == <<"L", "a", "b">>
S_Herd == <<"H", "e", "r", "d">>
S_a == <<"a">>
S_b == <<"b">>
S_abc == <<"a", "b", "c">>
S_1 == <<"1">>
S_2 == <<"2">>

O1(k1, v1) == Obj(<<Field(k1, v1)>>)
O2(k1, v1, k2, v2) == Obj(<<Field(k1, v1), Field(k2, v2)>>)
O3(k1, v1, k2, v2, k3, v3) == Obj(<<Field(k1, v1), Field(k2, v2), Field(k3, v3)>>)
In(type, value) == [type |-> type, value |-> value]
El(element, type) == [element |-> element, type |-> type]

Suites == {"inherit", "flat", "search"}

\* The (type, value) pairs a client of the suite passes to
\* convertSoapObjectToXmlString.
EncodeInputs(su) ==
  CASE su = "inherit" ->
       { In("TypeWithAnimal", O1("animal", O2("name", Str(S_Fido), "breed", Str(S_Lab)))),
         In("TypeWithAnimal", O1("animal", O2("breed", Str(S_Lab), "name", Str(S_Fido)))),
         In("TypeWithAnimal", O1("animal", O1("name", Str(S_Fido)))),
         In("TypeWithAnimal", O1("animal", O2("name", Str(S_Fido), "zz", Str(S_a)))),
         In("TypeWithAnimal",
            O1("animal", O3("role", Str(S_Herd), "name", Str(S_Fido), "breed", Str(S_Lab)))),
         In("TypeWithDog", O1("dog", O2("name", Str(S_Fido), "breed", Str(S_Lab)))),
         In("TypeWithDog",
            O1("dog", O3("name", Str(S_Fido), "breed", Str(S_Lab), "role", Str(S_Herd)))),
         In("DogType", O2("breed", Str(S_Lab), "name", Str(S_Fido))),
         In("DogType", O3("role", Str(S_Herd), "name", Str(S_Fido), "breed", Str(S_Lab))),
         In("AnimalType", O1("breed", Str(S_Lab))),
         In("Holder", O1("dogs", Arr(<<O2("name", Str(S_Fido), "breed", Str(S_Lab)),
                                       O3("name", Str(S_a), "breed", Str(S_b),
                                          "role", Str(S_Herd))>>))) }
    [] su = "flat" ->
       { In("TypeWithMultipleProperties", O2("prop2", Str(S_b), "prop1", Str(S_a))),
         In("TypeWithMultipleProperties", O2("prop1", Str(S_a), "prop2", Str(S_b))),
         In("TypeWithMultipleProperties", O1("prop1", Str(S_a))),
         In("TypeWithMultipleProperties", O1("prop1", Arr(<<Str(S_a)>>))),
         In("TypeWithMultipleProperties", O2("prop1", Undefined, "prop2", Str(S_b))),
         In("TypeWithMultipleProperties",
            O3("prop1", Str(S_a), "prop2", Str(S_b), "prop3", Str(S_abc))),
         In("Holder", O2("s", Str(S_a), "zz", Str(S_b))),
         In("Holder", O1("ss", Arr(<<>>))),
         In("Holder", O2("ss", Arr(<<Str(S_a), Str(S_b)>>), "s", Str(S_abc))),
         In("Holder", O1("ss", Str(S_a))),
         In("Holder", O1("s", Arr(<<Str(S_a)>>))),
         In("Holder", O3("d", Num(15, 1), "en", Str(S_val1), "i", Str(S_2))),
         In("Holder", O2("s", Undefined, "is", Arr(<<IntNum(1), Str(S_2)>>))) }
    [] su = "search" ->
       { In("TypeWithValueType", O1("value", O1("value", Str(S_abc)))),
         In("TypeWithValueType", O1("value", O1("value", IntNum(5)))),
         In("TypeWithValueType", O1("value", Obj(<<>>))),
         In("Value", O1("zz", Str(S_a))),
         In("Value", O1("value", Str(S_abc))),
         In("Value", O1("value", Str(S_1))),
         In("Value", O1("value", IntNum(5))),
         In("Value", O1("value", NaN)),
         In("Value", O1("value", Bool(TRUE))),
         In("Value", O1("value", Null)),
         In("Value", O1("value", Undefined)),
         In("Value", O1("value", Arr(<<IntNum(5)>>))),
         In("ShadowBase", O3("c", Str(S_abc), "a", Str(S_1), "b", Str(S_b))),
         In("ShadowChild", O3("c", Str(S_abc), "b", Str(S_b), "a", Str(S_1))),
         In("ShadowBase", O2("b", Str(S_b), "a", Str(S_a))),
         In("VehicleType", O2("doors", Str(S_2), "sails", Str(S_1))),
         In("VehicleType", O2("id", Str(S_a), "sails", Str(S_1))),
         In("VehicleType", O2("id", Str(S_a), "zz", Str(S_b))),
         In("NodeType", O1("label", Str(S_a))) }

\* The (element, type) pairs a client of the suite passes to
\* convertXmlElementToObjectLiteral, besides what the encoder produced.
DecodeInputs(su) ==
  CASE su = "inherit" ->
       { El(Element("animal", <<>>, <<>>, <<Leaf("name", S_Fido)>>), "AnimalType"),
         El(Element("dog", <<Attr("type", "DogType")>>, <<>>,
                    <<Leaf("name", S_Fido), Leaf("breed", S_Lab)>>), "AnimalType"),
         El(Element("dog", <<>>, <<>>, <<Leaf("name", S_Fido), Leaf("breed", S_Lab)>>),
            "DogType"),
         El(Element("dog", <<>>, <<>>, <<Leaf("name", S_Fido), Leaf("breed", S_Lab)>>),
            "AnimalType"),
         El(Element("dog", <<>>, <<>>, <<Leaf("breed", S_Lab), Leaf("role", S_Herd)>>),
            "HerdingDogType"),
         El(Element("cat", <<Attr("type", "CatType")>>, <<>>, <<Leaf("name", S_a)>>),
            "AnimalType"),
         El(Element("cat", <<Attr("type", "CatType")>>, <<>>, <<Leaf("name", S_a)>>),
            "HerdingDogType"),
         El(Element("cat", <<Attr("type", "CatType")>>, <<>>, <<>>), "DogType"),
         El(Element("animal", <<>>, <<>>, <<Leaf("name", S_Fido), Leaf("zz", S_a)>>),
            "AnimalType") }
    [] su = "flat" ->
       { El(Element("h", <<>>, <<>>, <<Leaf(n, <<>>)>>), "Holder") :
           n \in {"ss", "bs", "is", "ls", "ds", "ens", "dogs"} }
       \cup
       { El(Element("h", <<>>, <<>>, <<Leaf("i", S_abc)>>), "Holder"),
         El(Element("h", <<>>, <<>>, <<Leaf("s", <<>>)>>), "Holder"),
         El(Element("h", <<>>, <<>>, <<Leaf("is", S_1), Leaf("s", S_a), Leaf("is", S_2),
                                       Leaf("s", S_b)>>), "Holder"),
         El(Element("h", <<>>, <<>>, <<Leaf("b", S_true), Leaf("en", S_val1)>>), "Holder"),
         El(Element("h", <<>>, <<>>, <<Leaf("i", S_1), Leaf("ss", S_b), Leaf("i", S_2),
                                       Leaf("ss", S_a)>>), "Holder"),
         El(Element("h", <<>>, <<>>, <<Leaf("i", S_1), Leaf("i", S_abc)>>), "Holder") }
    [] su = "search" ->
       { El(Element("value", <<Attr("type", "TextValue")>>, <<>>,
                    <<Leaf("value", S_abc)>>), "Value"),
         El(Element("value", <<>>, <<>>, <<Leaf("value", S_abc)>>), "NumberValue"),
         El(Element("sh", <<>>, <<>>, <<Leaf("a", S_1), Leaf("c", S_abc)>>), "ShadowBase"),
         El(Element("sh", <<>>, <<>>, <<Leaf("a", S_1), Leaf("c", S_abc)>>), "ShadowChild") }

\* What the client can decode of the XML the creator returned last: the
\* document <root>xml</root> against the encoded type, and each of its
\* elements that holds an object against the declared type of its property.
EncodedInputs(op) ==
  IF op.op # "encode" \/ ~op.ok THEN {}
  ELSE LET root == ParseWrapped("root", op.xml)
           props == getAllPropertiesForType(op.type)
           objectChildren ==
             {i \in 1..Len(root.children) :
                /\ root.children[i].name \in PropNames(props)
                /\ isSoapObjectType(PropNamed(props, root.children[i].name).type)}
       IN  {El(root, op.type)}
           \cup {El(root.children[i], PropNamed(props, root.children[i].name).type) :
                   i \in objectChildren}

NoOp ==
  [op |-> "none", type |-> NoType, value |-> Undefined, element |-> Leaf("", <<>>),
   ok |-> FALSE, err |-> "", xml |-> <<>>, resolved |-> NoType, result |-> Undefined]

\* The longest string of ScalarAlphabet given to a scalar conversion.
MaxStrLen == 2
ScalarAlphabet == {"5", ".", "a", " ", "&", "-"}
ScalarStrings == UNION {[1..n -> ScalarAlphabet] : n \in 0..MaxStrLen}
S_val3 == <<"v", "a", "l", "3">>
\* The values given to a scalar conversion.
ScalarValues ==
  {Null, NaN, Bool(TRUE), Bool(FALSE), IntNum(5), IntNum(0), Num(15, 1), Num(-25, 2)}
  \cup {Str(str) : str \in ScalarStrings \cup {S_true, S_false, S_val1, S_val3, S_null}}
SimpleSoapTypes == SoapPrimitiveType \cup DOMAIN enums

NoScalar ==
  [phase |-> "idle", type |-> NoType, value |-> Undefined, ok |-> FALSE, err |-> "",
   xml |-> <<>>, decoded |-> Undefined]

\* No performOperation call made yet.
NoSvc ==
  [operationName |-> "", operationParameters |-> <<>>, body |-> <<>>, outcome |-> "none",
   error |-> "", message |-> Undefined, errors |-> Undefined, value |-> Undefined,
   payload |-> <<>>, requests |-> 0]

NoReport ==
  [pc |-> "idle", reportJob |-> 0, reportDownloadOptions |-> "", jobId |-> 0,
   status |-> "", totalWaitTime |-> 0, runs |-> 0, sleeps |-> 0, polls |-> 0,
   urlCalls |-> 0, urlJobId |-> 0, urlOptions |-> "", outcome |-> "none",
   error |-> "", result |-> ""]

\* A field of the builder that was never assigned.
Unset == "(undefined)"

\* No call on the builder yet.
NoCall == [op |-> "none", ok |-> FALSE, err |-> "", query |-> <<>>, hasValues |-> FALSE,
           values |-> <<>>]

\* new StatementBuilder(), and the client's record of its two latest calls
\* and of the first statement it got (held), as it was when returned.
NoBuilder ==
  [columnsForSelect |-> Unset, tableForFrom |-> Unset, clauseForWhere |-> Unset,
   bindVariables |-> <<>>, limit |-> 75, offset |-> 0, last |-> NoCall, prev |-> NoCall,
   held |-> NoCall]

Init ==
  /\ allPropertiesCache = <<>>
  /\ validPropertiesCache = <<>>
  /\ convertedObjectCache = <<>>
  /\ suite \in Suites
  /\ lastOp = NoOp
  /\ prevOp = NoOp
  /\ calls = 0
  /\ scalar = NoScalar
  /\ svc = NoSvc
  /\ report = NoReport
  /\ builder = NoBuilder

\* The creator returned or threw (r): its cache and the client's record.
Encoded(in, r) ==
  /\ allPropertiesCache' = r.cache
  /\ lastOp' = [NoOp EXCEPT !.op = "encode", !.type = in.type, !.value = in.value,
                            !.ok = r.ok, !.err = r.err, !.xml = r.xml,
                            !.resolved = r.actualType]

\* The parser returned or threw (r): its caches and the client's record.
Decoded(in, r) ==
  /\ validPropertiesCache' = r.vcache
  /\ convertedObjectCache' = r.ocache
  /\ lastOp' = [NoOp EXCEPT !.op = "decode", !.type = in.type, !.element = in.element,
                            !.ok = r.ok, !.err = r.err, !.result = r.value]

\* client: soapCreator.convertSoapObjectToXmlString(type, value)
Encode ==
  /\ calls < MaxCalls
  /\ \E in \in EncodeInputs(suite) :
       Encoded(in, convertSoapObjectToXmlString(in.type, in.value, allPropertiesCache))
  /\ prevOp' = lastOp
  /\ calls' = calls + 1
  /\ UNCHANGED <<validPropertiesCache, convertedObjectCache, suite, scalar, svc, report,
                 builder>>

\* client: soapParser.convertXmlElementToObjectLiteral(element, type)
Decode ==
  /\ calls < MaxCalls
  /\ \E in \in DecodeInputs(suite) \cup EncodedInputs(lastOp) :
       Decoded(in, convertXmlElementToObjectLiteral(
                     in.element, in.type, validPropertiesCache, convertedObjectCache))
  /\ prevOp' = lastOp
  /\ calls' = calls + 1
  /\ UNCHANGED <<allPropertiesCache, suite, scalar, svc, report, builder>>

Next == Encode \/ Decode

Spec == Init /\ [][Next]_vars

(***************************************************************************)
(* The scalar conversions on their own: a simple type and a value are      *)
(* drawn, the value is encoded, and the text is decoded as the content of   *)
(* an element.                                                             *)
(***************************************************************************)
InitScalar ==
  /\ allPropertiesCache = <<>>
  /\ validPropertiesCache = <<>>
  /\ convertedObjectCache = <<>>
  /\ suite = "scalar"
  /\ lastOp = NoOp
  /\ prevOp = NoOp
  /\ calls = 0
  /\ svc = NoSvc
  /\ report = NoReport
  /\ builder = NoBuilder
  /\ \E type \in SimpleSoapTypes, value \in ScalarValues :
       scalar = [NoScalar EXCEPT !.phase = "input", !.type = type, !.value = value]

SimpleEncoded(r) ==
  scalar' = [scalar EXCEPT !.phase = "encoded", !.ok = r.ok, !.err = r.err, !.xml = r.xml]

\* convertSimpleSoapTypeToXmlString(type, value)
EncodeSimple ==
  /\ scalar.phase = "input"
  /\ SimpleEncoded(convertSimpleSoapTypeToXmlString(scalar.type, scalar.value))
  /\ UNCHANGED <<allPropertiesCache, validPropertiesCache, convertedObjectCache, suite,
                 lastOp, prevOp, calls, svc, report, builder>>

SimpleDecoded(r) ==
  /\ scalar' = [scalar EXCEPT !.phase = "decoded", !.ok = r.ok, !.err = r.err,
                              !.decoded = r.value]
  /\ validPropertiesCache' = r.vcache
  /\ convertedObjectCache' = r.ocache

\* convertXmlElementToSoapType(<val>text</val>, type)
DecodeSimple ==
  /\ scalar.phase = "encoded"
  /\ scalar.ok
  /\ SimpleDecoded(convertXmlElementToSoapType(
                     ParseWrapped("val", scalar.xml), scalar.type,
                     validPropertiesCache, convertedObjectCache))
  /\ UNCHANGED <<allPropertiesCache, suite, lastOp, prevOp, calls, svc, report, builder>>

NextScalar == EncodeSimple \/ DecodeSimple

SpecScalar == InitScalar /\ [][NextScalar]_vars

(***************************************************************************)
(* AdManagerService.performOperation over the same index, with its          *)
(* SoapCreator and SoapParser.  The server's answer is the sequence of the  *)
(* elements of the response Body.                                          *)
(***************************************************************************)
E_UnrecognizedOperation == "Unrecognized operation"
E_NoBody == "No body element found in response"

\* soapCreator.createRequestObjectFromParameterList(operation, parameters):
\* the operation's properties, in order, take the parameters.
createRequestObjectFromParameterList(operation, operationParameters) ==
  Obj([i \in 1..Len(serviceTypes[operation].properties) |->
         Field(serviceTypes[operation].properties[i].name,
               IF i <= Len(operationParameters) THEN operationParameters[i]
               ELSE Undefined)])

\* element.getChild(name): the first child element of that name, if any.
GetChild(element, name) ==
  IF \E i \in 1..Len(element.children) : element.children[i].name = name
  THEN Some(element.children[CHOOSE i \in 1..Len(element.children) :
                               /\ element.children[i].name = name
                               /\ \A j \in 1..(i - 1) : element.children[j].name # name])
  ELSE None

\* getContent(0)?.asElement() of an optional element.
FirstContent(maybeElement) ==
  IF maybeElement.some /\ maybeElement.v.children # <<>>
  THEN Some(maybeElement.v.children[1])
  ELSE None

\* getResponseElement, given the children of the Body.
getResponseElement(body) ==
  IF body = <<>> THEN [ok |-> FALSE, err |-> E_NoBody]
  ELSE IF body[1].name = "Fault"
  THEN [ok |-> TRUE, err |-> "", responseTypeName |-> "ApiException",
        responseElement |-> FirstContent(GetChild(body[1], "detail"))]
  ELSE [ok |-> TRUE, err |-> "", responseTypeName |-> body[1].name,
        responseElement |-> Some(body[1])]

\* The record of a call that threw / returned, after `sent` more requests.
Threw(call, sent, error, message, errors) ==
  [call EXCEPT !.outcome = "threw", !.error = error, !.message = message,
               !.errors = errors, !.requests = svc.requests + sent]
Returned(call, value) ==
  [call EXCEPT !.outcome = "returned", !.value = value, !.requests = svc.requests + 1]

\* The parser returned or threw (r) on the response element.
ResponseDecoded(call, responseTypeName, r) ==
  /\ validPropertiesCache' = r.vcache
  /\ convertedObjectCache' = r.ocache
  /\ svc' = IF ~r.ok THEN Threw(call, 1, "Error", Str(<<r.err>>), Undefined)
            ELSE IF responseTypeName = "ApiException"
            THEN Threw(call, 1, "AdManagerServerFault", Get(r.value, "message"),
                       Get(r.value, "errors"))
            ELSE Returned(call, Get(r.value, "rval"))

\* UrlFetchApp.fetch has returned: getResponseElement (g), then the parser.
ResponseFetched(call, g) ==
  IF ~g.ok
  THEN /\ svc' = Threw(call, 1, "Error", Str(<<g.err>>), Undefined)
       /\ UNCHANGED <<validPropertiesCache, convertedObjectCache>>
  ELSE IF ~g.responseElement.some \/ g.responseTypeName \notin DOMAIN serviceTypes
  \* soapObjectType.name of undefined, element.getChildren() of undefined
  THEN /\ svc' = Threw(call, 1, "TypeError", Undefined, Undefined)
       /\ UNCHANGED <<validPropertiesCache, convertedObjectCache>>
  ELSE ResponseDecoded(call, g.responseTypeName,
                       convertXmlElementToObjectLiteral(
                         g.responseElement.v, g.responseTypeName,
                         validPropertiesCache, convertedObjectCache))

\* PayloadCreated with the request issued before the encoding is looked at.
PayloadCreated_FetchFirst(call, r) ==
  /\ allPropertiesCache' = r.cache
  /\ IF ~r.ok
     THEN /\ svc' = Threw(call, 1, "Error", Str(<<r.err>>), Undefined)
          /\ UNCHANGED <<validPropertiesCache, convertedObjectCache>>
     ELSE ResponseFetched([call EXCEPT !.payload =
                             <<Open(call.operationName, "")>> \o r.xml
                               \o <<Close(call.operationName)>>],
                          getResponseElement(call.body))

\* createSoapPayload has encoded the request object (r).
PayloadCreated(call, r) ==
  /\ allPropertiesCache' = r.cache
  /\ IF ~r.ok
     THEN /\ svc' = Threw(call, 0, "Error", Str(<<r.err>>), Undefined)
          /\ UNCHANGED <<validPropertiesCache, convertedObjectCache>>
     ELSE ResponseFetched([call EXCEPT !.payload =
                             <<Open(call.operationName, "")>> \o r.xml
                               \o <<Close(call.operationName)>>],
                          getResponseElement(call.body))

\* performOperation(operationName, ...operationParameters), the server
\* answering with body.
performOperation(call) ==
  IF call.operationName \notin DOMAIN serviceTypes
  THEN /\ svc' = Threw(call, 0, "Error", Str(<<E_UnrecognizedOperation>>), Undefined)
       /\ UNCHANGED <<allPropertiesCache, validPropertiesCache, convertedObjectCache>>
  ELSE PayloadCreated(
         call,
         convertSoapObjectToXmlString(
           call.operationName,
           createRequestObjectFromParameterList(call.operationName,
                                                call.operationParameters),
           allPropertiesCache))

S_msg == <<"m", "s", "g">>

\* The operations a client asks for: one of the index, one that is not.
OperationNames == {"getAnimal", "noSuchOperation"}

\* The parameter lists a client passes: valid ones and one whose limit is
\* not an int.
ParameterLists ==
  { <<Str(S_Fido), IntNum(5)>>, <<Str(S_Fido), Undefined>>, <<Str(S_Fido), Str(S_abc)>> }

\* A Fault element with the given detail children, after faultcode and
\* faultstring.
Fault(extra) ==
  Element("Fault", <<>>, <<>>, <<Leaf("faultcode", S_a), Leaf("faultstring", S_msg)>> \o extra)
Detail(children) == Element("detail", <<>>, <<>>, children)
ApiExceptionFault(children) == Element("ApiExceptionFault", <<>>, <<>>, children)

\* The children of the Body in the answers of the server.
ResponseBodies ==
  { \* a result
    <<Element("getAnimalResponse", <<>>, <<>>,
              <<Element("rval", <<>>, <<>>, <<Leaf("name", S_Fido)>>)>>)>>,
    <<Element("getAnimalResponse", <<>>, <<>>,
              <<Element("rval", <<Attr("type", "DogType")>>, <<>>,
                        <<Leaf("name", S_Fido), Leaf("breed", S_Lab)>>)>>)>>,
    \* a fault with its detail, the error typed or not
    <<Fault(<<Detail(<<ApiExceptionFault(
                         <<Leaf("message", S_msg),
                           Element("errors", <<Attr("type", "AuthenticationError")>>, <<>>,
                                   <<Leaf("fieldPath", S_a), Leaf("reason", S_b)>>)>>)>>)>>)>>,
    <<Fault(<<Detail(<<ApiExceptionFault(
                         <<Leaf("message", S_msg),
                           Element("errors", <<>>, <<>>, <<Leaf("fieldPath", S_a)>>)>>)>>)>>)>>,
    \* a fault without detail, with an empty detail, with an unknown field
    <<Fault(<<>>)>>,
    <<Fault(<<Detail(<<>>)>>)>>,
    <<Fault(<<Detail(<<ApiExceptionFault(<<Leaf("message", S_msg), Leaf("zz", S_a)>>)>>)>>)>>,
    \* an empty Body, and an element the index does not know
    <<>>,
    <<Element("otherResponse", <<>>, <<>>, <<Leaf("rval", S_a)>>)>> }

InitService ==
  /\ allPropertiesCache = <<>>
  /\ validPropertiesCache = <<>>
  /\ convertedObjectCache = <<>>
  /\ suite = "service"
  /\ lastOp = NoOp
  /\ prevOp = NoOp
  /\ calls = 0
  /\ scalar = NoScalar
  /\ svc = NoSvc
  /\ report = NoReport
  /\ builder = NoBuilder

\* client: service.performOperation(operationName, ...operationParameters)
PerformOperation ==
  /\ calls < MaxCalls
  /\ \E operationName \in OperationNames, operationParameters \in ParameterLists,
        body \in ResponseBodies :
       performOperation([NoSvc EXCEPT !.operationName = operationName,
                                      !.operationParameters = operationParameters,
                                      !.body = body])
  /\ calls' = calls + 1
  /\ UNCHANGED <<suite, lastOp, prevOp, scalar, report, builder>>

NextService == PerformOperation

SpecService == InitService /\ [][NextService]_vars

(***************************************************************************)
(* ReportDownloader.waitForReport (report_downloader.ts).  The report       *)
(* service answers each performOperation: it returns a value or throws.     *)
(* report.pc is the place of the call: "idle" before it, "polling" at the   *)
(* test of the while loop, "done" once it returned or threw.                *)
(***************************************************************************)
SLEEP_INTERVAL == 5 * 1000

WAIT_FOR_REPORT_TIMEOUT == 60 * 1000

DEFAULT_REPORT_DOWNLOAD_OPTIONS == "CSV_DUMP"

\* enum ReportJobStatus
ReportJobStatus == {"IN_PROGRESS", "COMPLETED", "FAILED"}

E_TimedOut == "Report generation timed out."
E_FailedReport == "Failed to create report."
E_ServerFault == "AdManagerServerFault"

\* No value: the rval of an answer that has none.
NoAnswer == "(undefined)"
\* The report jobs a client passes, and the export formats it asks for
\* (NoAnswer: the parameter is left out).
ReportJobs == {1, 2}
DownloadOptions == {NoAnswer, "TSV", "XLSX"}
\* The answers of runReportJob (the id of the job, 0 when the answer has no
\* job), getReportJobStatus and getReportDownloadUrlWithOptions.
RunAnswers == {0, 7, 8}
StatusAnswers == ReportJobStatus \cup {NoAnswer, "UNKNOWN"}
UrlAnswers == {"url1", "url2"}

\* waitForReport threw error.
ReportThrew(r, error) == [r EXCEPT !.pc = "done", !.outcome = "threw", !.error = error]

\* The test of the while loop without the test of the status.
LoopContinues_UntilTimeout(status, totalWaitTime) ==
  totalWaitTime < WAIT_FOR_REPORT_TIMEOUT

\* The test of the while loop, with the 65th second still inside the wait.
LoopContinues_Inclusive(status, totalWaitTime) ==
  status = "IN_PROGRESS" /\ totalWaitTime <= WAIT_FOR_REPORT_TIMEOUT

\* The test of the while loop.
LoopContinues(status, totalWaitTime) ==
  status = "IN_PROGRESS" /\ totalWaitTime < WAIT_FOR_REPORT_TIMEOUT

InitReport ==
  /\ allPropertiesCache = <<>>
  /\ validPropertiesCache = <<>>
  /\ convertedObjectCache = <<>>
  /\ suite = "report"
  /\ lastOp = NoOp
  /\ prevOp = NoOp
  /\ calls = 0
  /\ scalar = NoScalar
  /\ svc = NoSvc
  /\ report = NoReport
  /\ builder = NoBuilder

ReportFrame ==
  UNCHANGED <<allPropertiesCache, validPropertiesCache, convertedObjectCache, suite,
              lastOp, prevOp, calls, scalar, svc, builder>>

\* client: waitForReport(reportJob, reportDownloadOptions), up to the first
\* test of the loop: the status starts IN_PROGRESS, runReportJob is called.
WaitForReport ==
  /\ report.pc = "idle"
  /\ \E reportJob \in ReportJobs, options \in DownloadOptions :
       LET started == [report EXCEPT
                         !.reportJob = reportJob,
                         !.reportDownloadOptions =
                           IF options = NoAnswer THEN DEFAULT_REPORT_DOWNLOAD_OPTIONS
                           ELSE options,
                         !.status = "IN_PROGRESS",
                         !.runs = 1]
       IN  \/ report' = ReportThrew(started, E_ServerFault)
           \/ \E id \in RunAnswers :
                report' = [started EXCEPT !.pc = "polling", !.jobId = id,
                                          !.totalWaitTime = 0]
  /\ ReportFrame

\* One turn of the loop: sleep, ask for the status, count the wait.
Poll ==
  /\ report.pc = "polling"
  /\ LoopContinues(report.status, report.totalWaitTime)
  /\ LET slept == [report EXCEPT !.sleeps = @ + 1]
     IN  \* reportJobWithId.id of an answer without a job
         IF report.jobId = 0 THEN report' = ReportThrew(slept, E_TypeError)
         ELSE \/ report' = ReportThrew([slept EXCEPT !.polls = @ + 1], E_ServerFault)
              \/ \E status \in StatusAnswers :
                   report' = [slept EXCEPT !.polls = @ + 1, !.status = status,
                                           !.totalWaitTime = @ + SLEEP_INTERVAL]
  /\ ReportFrame

\* After the loop: the two throws, else the request of the download URL.
Finish ==
  /\ report.pc = "polling"
  /\ ~LoopContinues(report.status, report.totalWaitTime)
  /\ IF report.status = "IN_PROGRESS" THEN report' = ReportThrew(report, E_TimedOut)
     ELSE IF report.status = "FAILED" THEN report' = ReportThrew(report, E_FailedReport)
     ELSE LET asked == [report EXCEPT !.urlCalls = @ + 1, !.urlJobId = report.jobId,
                                      !.urlOptions = report.reportDownloadOptions]
          IN  \/ report' = ReportThrew(asked, E_ServerFault)
              \/ \E url \in UrlAnswers :
                   report' = [asked EXCEPT !.pc = "done", !.outcome = "returned",
                                           !.result = url]
  /\ ReportFrame

NextReport == WaitForReport \/ Poll \/ Finish

\* waitForReport runs on: the service answers every request and the sleep
\* ends.
SpecReport == InitReport /\ [][NextReport]_vars /\ WF_vars(NextReport)

(***************************************************************************)
(* StatementBuilder (statement_builder.ts).  A query is the sequence of the *)
(* words that join(' ') separates by blanks; a statement with values holds  *)
(* the builder's own bindVariables array, so its values are read there.     *)
(***************************************************************************)
E_FromRequired == "FROM clause required with SELECT."
E_SelectRequired == "SELECT clause required with FROM."

\* The truth value of a string field: undefined and '' are falsy.
Truthy(string) == string # Unset /\ string # ""

\* The strings a client passes for columns, table and clause.
ColumnStrings == {"", "Id, Name"}
TableStrings == {"", "Line_Item"}
ClauseStrings == {"", "id = :id"}
Limits == {0, 10}
Offsets == {5}
BindKeys == {"id"}
\* A bind value: one value, or an array of values.
BindValues == {[isArray |-> FALSE, v |-> <<"1">>], [isArray |-> TRUE, v |-> <<"1", "2">>],
               [isArray |-> TRUE, v |-> <<>>]}

\* {key, value: Array.isArray(value) ? {values: value.map(v => ({value: v}))} : {value}}
StringKeyValueMap(key, value) ==
  [key |-> key,
   value |-> IF value.isArray
             THEN [values |-> [i \in 1..Len(value.v) |-> [value |-> value.v[i]]]]
             ELSE [value |-> value.v[1]]]

\* toStatement without its first check.
toStatement_SelectAlone(b) ==
  IF ~Truthy(b.columnsForSelect) /\ Truthy(b.tableForFrom)
  THEN [NoCall EXCEPT !.op = "toStatement", !.err = E_SelectRequired]
  ELSE [NoCall EXCEPT
          !.op = "toStatement", !.ok = TRUE,
          !.query = (IF Truthy(b.columnsForSelect)
                     THEN <<"SELECT", b.columnsForSelect, "FROM", b.tableForFrom>>
                     ELSE <<>>)
                    \o (IF Truthy(b.clauseForWhere) THEN <<"WHERE", b.clauseForWhere>>
                        ELSE <<>>)
                    \o <<"LIMIT", ToString(b.limit), "OFFSET", ToString(b.offset)>>,
          !.hasValues = (Len(b.bindVariables) # 0),
          !.values = b.bindVariables]

\* toStatement(): what it throws or returns for the builder b.
toStatement(b) ==
  IF Truthy(b.columnsForSelect) /\ ~Truthy(b.tableForFrom)
  THEN [NoCall EXCEPT !.op = "toStatement", !.err = E_FromRequired]
  ELSE IF ~Truthy(b.columnsForSelect) /\ Truthy(b.tableForFrom)
  THEN [NoCall EXCEPT !.op = "toStatement", !.err = E_SelectRequired]
  ELSE [NoCall EXCEPT
          !.op = "toStatement", !.ok = TRUE,
          !.query = (IF Truthy(b.columnsForSelect)
                     THEN <<"SELECT", b.columnsForSelect, "FROM", b.tableForFrom>>
                     ELSE <<>>)
                    \o (IF Truthy(b.clauseForWhere) THEN <<"WHERE", b.clauseForWhere>>
                        ELSE <<>>)
                    \o <<"LIMIT", ToString(b.limit), "OFFSET", ToString(b.offset)>>,
          !.hasValues = (Len(b.bindVariables) # 0),
          !.values = b.bindVariables]

InitStatement ==
  /\ allPropertiesCache = <<>>
  /\ validPropertiesCache = <<>>
  /\ convertedObjectCache = <<>>
  /\ suite = "statement"
  /\ lastOp = NoOp
  /\ prevOp = NoOp
  /\ calls = 0
  /\ scalar = NoScalar
  /\ svc = NoSvc
  /\ report = NoReport
  /\ builder = NoBuilder

\* The builder after a call: b with the call recorded.
Called(b, call) == [b EXCEPT !.prev = builder.last, !.last = call]

StatementFrame ==
  /\ calls < MaxCalls
  /\ calls' = calls + 1
  /\ UNCHANGED <<allPropertiesCache, validPropertiesCache, convertedObjectCache, suite,
                 lastOp, prevOp, scalar, svc, report>>

ReturnedThis(op) == [NoCall EXCEPT !.op = op, !.ok = TRUE]

Select ==
  /\ \E columns \in ColumnStrings :
       builder' = Called([builder EXCEPT !.columnsForSelect = columns],
                         ReturnedThis("select"))
  /\ StatementFrame

From ==
  /\ \E table \in TableStrings :
       builder' = Called([builder EXCEPT !.tableForFrom = table], ReturnedThis("from"))
  /\ StatementFrame

Where ==
  /\ \E clause \in ClauseStrings :
       builder' = Called([builder EXCEPT !.clauseForWhere = clause], ReturnedThis("where"))
  /\ StatementFrame

WithLimit ==
  /\ \E limit \in Limits :
       builder' = Called([builder EXCEPT !.limit = limit], ReturnedThis("withLimit"))
  /\ StatementFrame

WithOffset ==
  /\ \E offset \in Offsets :
       builder' = Called([builder EXCEPT !.offset = offset], ReturnedThis("withOffset"))
  /\ StatementFrame

WithBindVariable ==
  /\ \E key \in BindKeys, value \in BindValues :
       builder' = Called([builder EXCEPT
                            !.bindVariables = Append(@, StringKeyValueMap(key, value))],
                         ReturnedThis("withBindVariable"))
  /\ StatementFrame

\* The statement the client holds, read now: its query is a string of its
\* own, its values are the builder's bindVariables array itself
\* ({query: queryString, values: this.bindVariables}).
HeldStatement(b) ==
  [query |-> b.held.query,
   hasValues |-> b.held.hasValues,
   values |-> IF b.held.hasValues THEN b.bindVariables ELSE <<>>]

\* The client keeps the first statement it is given.
Kept(b, call) ==
  IF b.held.op = "none" /\ call.ok THEN [b EXCEPT !.held = call] ELSE b

ToStatement ==
  /\ builder' = Kept(Called(builder, toStatement(builder)), toStatement(builder))
  /\ StatementFrame

NextStatement ==
  Select \/ From \/ Where \/ WithLimit \/ WithOffset \/ WithBindVariable \/ ToStatement

SpecStatement == InitStatement /\ [][NextStatement]_vars

(***************************************************************************)
(* Properties.                                                             *)
(***************************************************************************)
\* Structural equality of two values: the same fields, whatever their order.
RECURSIVE SameValue(_, _)
SameValue(a, b) ==
  IF a.t # b.t THEN FALSE
  ELSE IF a.t = "obj"
    THEN /\ KeySet(a) = KeySet(b)
         /\ \A k \in KeySet(a) : SameValue(Get(a, k), Get(b, k))
  ELSE IF a.t = "arr"
    THEN /\ Len(a.items) = Len(b.items)
         /\ \A i \in 1..Len(a.items) : SameValue(a.items[i], b.items[i])
  ELSE a = b

\* The document the creator returned, as the parser's client sees it.
EncodedRoot(op) == ParseWrapped("root", op.xml)

\* The start tags of the elements directly under the root of an encoding.
RootTags(op) ==
  [i \in 1..Len(EncodedRoot(op).children) |->
     [tag |-> EncodedRoot(op).children[i].name,
      type |-> TypeAttributeOf(EncodedRoot(op).children[i])]]

\* What a parser that has decoded nothing yet makes of a call's arguments.
FreshDecode(op) == convertXmlElementToObjectLiteral(op.element, op.type, <<>>, <<>>)

SameOutcome(op, r) ==
  /\ op.ok = r.ok
  /\ op.err = r.err
  /\ op.ok => SameValue(op.result, r.value)

\* The call before last encoded {animal: {name, breed}} for a property of
\* declared type AnimalType, and the last call decoded the element the
\* encoder wrote for it against AnimalType.
AnimalRoundTrip ==
  /\ prevOp.op = "encode"
  /\ prevOp.type = "TypeWithAnimal"
  /\ HasKey(prevOp.value, "animal")
  /\ Get(prevOp.value, "animal").t = "obj"
  /\ KeySet(Get(prevOp.value, "animal")) = {"name", "breed"}
  /\ lastOp.op = "decode"
  /\ lastOp.type = "AnimalType"
  /\ prevOp.ok
  /\ Len(EncodedRoot(prevOp).children) = 1
  /\ lastOp.element = EncodedRoot(prevOp).children[1]

\* C1: an AnimalType-declared property holding {name, breed} is encoded
\* with the override xsi:type="DogType", and decoding that element against
\* AnimalType returns exactly {name, breed} with the original values.
C1_OverrideRoundTrip ==
  AnimalRoundTrip =>
    /\ RootTags(prevOp) = <<[tag |-> "animal", type |-> "DogType"]>>
    /\ lastOp.ok
    /\ SameValue(lastOp.result, Get(prevOp.value, "animal"))

\* C2: the outcome of a decode call (the value returned or the error
\* raised) is the outcome the same call has on a parser that decoded nothing
\* before: the caches never change what a later call yields.
C2_DecodeIndependentOfHistory ==
  lastOp.op = "decode" => SameOutcome(lastOp, FreshDecode(lastOp))

\* The last call encoded an object whose declared properties all converted,
\* leaving keys unconsumed, against a type without descendants.
LeftoverKeysNoDescendants ==
  /\ lastOp.op = "encode"
  /\ lastOp.value.t = "obj"
  /\ serviceTypes[lastOp.type].childTypes = <<>>
  /\ ObjectProperties(getAllPropertiesForType(lastOp.type), 1, lastOp.value, <<>>,
                      KeySet(lastOp.value), <<>>).ok
  /\ ~(KeySet(lastOp.value) \subseteq PropNames(getAllPropertiesForType(lastOp.type)))

\* C3: encoding an object that has keys left after its declared properties
\* are consumed, against a type without descendants, raises 'Unrecognized
\* properties', whether the type's child list is absent or empty.
C3_UnrecognizedProperties ==
  LeftoverKeysNoDescendants => (~lastOp.ok /\ lastOp.err = E_Unrecognized)

\* The last two calls decoded the same element against the same type.
DecodedTwice ==
  /\ prevOp.op = "decode"
  /\ lastOp.op = "decode"
  /\ prevOp.element = lastOp.element
  /\ prevOp.type = lastOp.type
  /\ prevOp.ok

\* C4: decoding the same element twice against the same type yields
\* structurally equal results, also when a child has empty or non-numeric
\* text.
C4_RepeatedDecodeEqual ==
  DecodedTwice => (lastOp.ok /\ SameValue(prevOp.result, lastOp.result))


\* C5: encoding the scalar null yields empty text and no error, for every
\* primitive type and every enum type.
C5_NullEncodesEmpty ==
  (scalar.phase = "encoded" /\ scalar.value = Null) => (scalar.ok /\ scalar.xml = <<>>)

\* Equality up to numeric/string representation: the same string form, or
\* the same number.
SameUpToRepresentation(v, w) ==
  \/ JsString(v) = JsString(w)
  \/ (~IsNaN(JsNumber(v)) /\ JsNumber(v) = JsNumber(w))

\* C6: for a primitive type and a value the encoder accepts for it, decoding
\* the element whose text is the encoding gives back the value, up to
\* numeric/string representation.
C6_PrimitiveRoundTrip ==
  (scalar.phase = "decoded" /\ scalar.type \in SoapPrimitiveType) =>
    (scalar.ok /\ SameUpToRepresentation(scalar.value, scalar.decoded))

\* The keys of an object whose value is an array without entries.
EmptyArrayKeys(value) == {k \in KeySet(value) : Get(value, k) = Arr(<<>>)}

\* The call before last encoded an object with an empty array property and
\* the last call decoded the encoder's output against the same type.
EmptyArrayRoundTrip ==
  /\ prevOp.op = "encode"
  /\ prevOp.ok
  /\ prevOp.value.t = "obj"
  /\ EmptyArrayKeys(prevOp.value) # {}
  /\ lastOp.op = "decode"
  /\ lastOp.type = prevOp.type
  /\ lastOp.element = EncodedRoot(prevOp)

\* C7: an array property without entries is encoded to no tag at all, and
\* decoding that output against the same type yields an object whose array
\* property is the empty sequence.
C7_EmptyArrayRoundTrip ==
  EmptyArrayRoundTrip =>
    \A k \in EmptyArrayKeys(prevOp.value) :
      /\ \A i \in 1..Len(lastOp.element.children) : lastOp.element.children[i].name # k
      /\ lastOp.ok
      /\ Get(lastOp.result, k) = Arr(<<>>)

\* The last call decoded an element whose only child is one empty element
\* of the array property p, an array of a primitive or enum type.
OneEmptyArrayChild(p) ==
  /\ lastOp.op = "decode"
  /\ lastOp.type \in DOMAIN serviceTypes
  /\ TypeAttributeOf(lastOp.element) = ""
  /\ p.isArray
  /\ ~isSoapObjectType(p.type)
  /\ lastOp.element.children = <<Leaf(p.name, <<>>)>>

\* C8: an empty child element of an array property is dropped, whatever the
\* element type of the array (string, boolean, int, long, double, enum): the
\* object decodes to an empty sequence for that property.
C8_EmptyArrayEntriesDropped ==
  lastOp.type \in DOMAIN serviceTypes =>
    \A i \in 1..Len(getAllPropertiesForType(lastOp.type)) :
      OneEmptyArrayChild(getAllPropertiesForType(lastOp.type)[i]) =>
        /\ lastOp.ok
        /\ Get(lastOp.result, getAllPropertiesForType(lastOp.type)[i].name) = Arr(<<>>)


\* Every type below soapObjectType in the type graph.
RECURSIVE Descendants(_)
Descendants(soapObjectType) ==
  UNION {{serviceTypes[soapObjectType].childTypes[i]}
           \cup Descendants(serviceTypes[soapObjectType].childTypes[i]) :
         i \in 1..Len(serviceTypes[soapObjectType].childTypes)}

ElementsNamed(element, name) ==
  SelectSeq(element.children, LAMBDA child : child.name = name)

\* attr is the right type attribute for the entry v of the object-typed
\* property p: none when the declared type consumes every key of v, and
\* otherwise the name of the type v resolves to, a descendant of p's type.
TypeAttributeRight(p, v, attr) ==
  /\ (attr = "") <=> (KeySet(v) \subseteq PropNames(getAllPropertiesForType(p.type)))
  /\ attr = "" => convertSoapValueToXmlString(p.type, v, <<>>).actualType = p.type
  /\ attr # "" =>
       /\ attr = convertSoapValueToXmlString(p.type, v, <<>>).actualType
       /\ attr \in Descendants(p.type)

\* The start tags written for property p of the object last encoded carry
\* the right type attribute.
PropertyTagsRight(p) ==
  LET els == ElementsNamed(EncodedRoot(lastOp), p.name)
      v == Get(lastOp.value, p.name)
      entries == IF IsArray(v) THEN v.items ELSE <<v>>
  IN  IF isSoapObjectType(p.type)
      THEN /\ Len(els) = Len(entries)
           /\ \A j \in 1..Len(els) :
                TypeAttributeRight(p, entries[j], TypeAttributeOf(els[j]))
      ELSE \A j \in 1..Len(els) : TypeAttributeOf(els[j]) = ""

\* The last call encoded an object with success.
EncodedObject == lastOp.op = "encode" /\ lastOp.ok /\ lastOp.value.t = "obj"

\* C9: the start tag of an object-typed property carries xsi:type naming
\* the resolved type exactly when the value resolves to a type other than
\* the declared one; it carries none when the declared type consumes all the
\* value's keys (also when it has child types) or the property is a
\* primitive or an enum.
C9_TypeAttributeIffResolvedDiffers ==
  EncodedObject =>
    \A i \in 1..Len(getAllPropertiesForType(lastOp.resolved)) :
      HasKey(lastOp.value, getAllPropertiesForType(lastOp.resolved)[i].name) =>
        PropertyTagsRight(getAllPropertiesForType(lastOp.resolved)[i])

\* An array of DogType was encoded: one entry resolved to DogType itself,
\* the other to its child HerdingDogType.
C9_Witness ==
  /\ EncodedObject
  /\ RootTags(lastOp) = <<[tag |-> "dogs", type |-> ""],
                          [tag |-> "dogs", type |-> "HerdingDogType"]>>

\* The names a type declares, those of its base types first.
RECURSIVE DeclaredNames(_)
DeclaredNames(soapObjectType) ==
  (IF serviceTypes[soapObjectType].baseType = NoType THEN <<>>
   ELSE DeclaredNames(serviceTypes[soapObjectType].baseType))
  \o SelectSeq([i \in 1..Len(serviceTypes[soapObjectType].properties) |->
                  serviceTypes[soapObjectType].properties[i].name],
               LAMBDA n : \/ serviceTypes[soapObjectType].baseType = NoType
                          \/ n \notin PropNames(getAllPropertiesForType(
                                        serviceTypes[soapObjectType].baseType)))

\* A sequence without the later occurrences of its elements.
RECURSIVE FirstOccurrences(_)
FirstOccurrences(seq) ==
  IF seq = <<>> THEN <<>>
  ELSE <<Head(seq)>> \o FirstOccurrences(SelectSeq(Tail(seq), LAMBDA x : x # Head(seq)))

\* The same value with the keys of every object in the opposite order.
RECURSIVE ReverseKeys(_)
ReverseKeys(v) ==
  IF v.t = "obj"
  THEN Obj([i \in 1..Len(v.fields) |->
              Field(v.fields[Len(v.fields) + 1 - i].k,
                    ReverseKeys(v.fields[Len(v.fields) + 1 - i].v))])
  ELSE IF v.t = "arr" THEN Arr([i \in 1..Len(v.items) |-> ReverseKeys(v.items[i])])
  ELSE v

\* The tag names directly under the root of an encoding, in document order.
RootTagNames(op) == [i \in 1..Len(RootTags(op)) |-> RootTags(op)[i].tag]

\* The keys of a value for which the encoder writes an element.
WrittenKeys(value) ==
  {k \in KeySet(value) : Get(value, k) # Undefined /\ Get(value, k) # Arr(<<>>)}

\* The number of property declarations on a type and its base types.
RECURSIVE DeclarationCount(_)
DeclarationCount(soapObjectType) ==
  Len(serviceTypes[soapObjectType].properties)
  + (IF serviceTypes[soapObjectType].baseType = NoType THEN 0
     ELSE DeclarationCount(serviceTypes[soapObjectType].baseType))

\* No type on the base chain declares a name that another one declares.
NoRedeclaration(soapObjectType) ==
  DeclarationCount(soapObjectType) = Len(DeclaredNames(soapObjectType))

\* A sequence with each run of equal neighbours reduced to one element.
RECURSIVE RunsCollapsed(_)
RunsCollapsed(seq) ==
  IF Len(seq) <= 1 THEN seq
  ELSE IF seq[1] = seq[2] THEN RunsCollapsed(Tail(seq))
  ELSE <<Head(seq)>> \o RunsCollapsed(Tail(seq))

\* C10: the properties of an encoded object appear in the declared order of
\* its type, inherited ones before the type's own, whatever the key order of
\* the value: the elements appear (by first occurrence) in declared order,
\* the elements of one property are adjacent when no name is declared twice
\* on the base chain, and the value with its keys reversed gives the same
\* XML; {prop2: 'b', prop1: 'a'} gives <prop1>a</prop1><prop2>b</prop2>.
C10_DeclaredOrder ==
  EncodedObject =>
    /\ FirstOccurrences(RootTagNames(lastOp))
         = SelectSeq(DeclaredNames(lastOp.resolved),
                     LAMBDA n : n \in WrittenKeys(lastOp.value))
    /\ NoRedeclaration(lastOp.resolved) =>
         RunsCollapsed(RootTagNames(lastOp))
           = SelectSeq(DeclaredNames(lastOp.resolved),
                       LAMBDA n : n \in WrittenKeys(lastOp.value))
    /\ convertSoapObjectToXmlString(lastOp.type, ReverseKeys(lastOp.value), <<>>).xml
         = lastOp.xml
    /\ (/\ lastOp.type = "TypeWithMultipleProperties"
        /\ lastOp.value = O2("prop2", Str(S_b), "prop1", Str(S_a)))
       => lastOp.xml = <<Open("prop1", ""), Text(S_a), Close("prop1"),
                         Open("prop2", ""), Text(S_b), Close("prop2")>>

\* {prop2: 'b', prop1: 'a'} was encoded: the keys came in the opposite of the
\* declared order.
C10_Witness ==
  /\ EncodedObject
  /\ lastOp.type = "TypeWithMultipleProperties"
  /\ Keys(lastOp.value) = <<"prop2", "prop1">>


\* The last call encoded an object, with success or not.
EncodeOfObject == lastOp.op = "encode" /\ lastOp.value.t = "obj"

\* The places, in declared order, of the required properties of the declared
\* type for which the value last encoded has no defined value.
MissingRequired ==
  {i \in 1..Len(getAllPropertiesForType(lastOp.type)) :
     /\ ~getAllPropertiesForType(lastOp.type)[i].isOptional
     /\ Get(lastOp.value, getAllPropertiesForType(lastOp.type)[i].name) = Undefined}

\* What the conversion of the i-th declared property of the value last
\* encoded gives on its own.
DeclaredPropertyResult(i) ==
  convertSoapObjectPropertyToXmlString(
    getAllPropertiesForType(lastOp.type)[i],
    Get(lastOp.value, getAllPropertiesForType(lastOp.type)[i].name), <<>>)

\* The declared properties, before the first missing required one, whose
\* supplied value is itself rejected.
RejectedBeforeMissing ==
  {j \in 1..Len(getAllPropertiesForType(lastOp.type)) :
     /\ \A i \in MissingRequired : j < i
     /\ HasKey(lastOp.value, getAllPropertiesForType(lastOp.type)[j].name)
     /\ ~DeclaredPropertyResult(j).ok}

\* A successful encode had a defined value for every required property of
\* the resolved type, own or inherited.
RequiredAllSupplied ==
  (EncodeOfObject /\ lastOp.ok) =>
    \A i \in 1..Len(getAllPropertiesForType(lastOp.resolved)) :
      getAllPropertiesForType(lastOp.resolved)[i].isOptional
      \/ Get(lastOp.value, getAllPropertiesForType(lastOp.resolved)[i].name) # Undefined

\* C11 (as stated): encode succeeds only if every required property of the
\* resolved type has a defined value, and a missing required property of the
\* declared type makes encode fail with the 'required' error and no XML.
C11_MissingRequiredFails ==
  /\ RequiredAllSupplied
  /\ (EncodeOfObject /\ MissingRequired # {}) =>
       (~lastOp.ok /\ lastOp.xml = <<>> /\ lastOp.err = E_Required)

\* C11 (amended): the same, except that the properties are converted in
\* declared order and the first failure is the one raised: the error is
\* 'required' unless a property declared before the missing one has a
\* supplied value that is itself rejected, whose error is then raised.  No
\* child type is tried in either case.
C11_FirstFailureInDeclaredOrder ==
  /\ RequiredAllSupplied
  /\ (EncodeOfObject /\ MissingRequired # {}) =>
       /\ ~lastOp.ok
       /\ lastOp.xml = <<>>
       /\ lastOp.err =
            IF RejectedBeforeMissing = {} THEN E_Required
            ELSE DeclaredPropertyResult(
                   CHOOSE j \in RejectedBeforeMissing :
                     \A k \in RejectedBeforeMissing : j <= k).err

\* {breed: 'Lab'} was encoded against AnimalType, whose required name is
\* missing and whose child DogType declares breed: the 'required' error.
C11_Witness ==
  /\ EncodeOfObject
  /\ lastOp.type = "AnimalType"
  /\ KeySet(lastOp.value) = {"breed"}
  /\ lastOp.err = E_Required


\* The declared values of an enum.
EnumValues(enumName) ==
  {enums[enumName].enumerations[i] : i \in 1..Len(enums[enumName].enumerations)}

\* A value other than null has been encoded against an enum type.
EnumEncoded ==
  scalar.phase = "encoded" /\ scalar.type \in DOMAIN enums /\ scalar.value # Null

\* C12: encoding a value other than null against an enum type fails exactly
\* when the string form of the value is not one of the enum's declared
\* values; {val1, val2} accepts val1 and rejects val3.
C12_EnumMembership ==
  EnumEncoded =>
    /\ scalar.ok <=> JsString(scalar.value) \in EnumValues(scalar.type)
    /\ ~scalar.ok => (scalar.err = E_Invalid /\ scalar.xml = <<>>)
    /\ scalar.value = Str(S_val1) => scalar.ok
    /\ scalar.value = Str(S_val3) => ~scalar.ok

\* val3 was encoded against the enum {val1, val2} and rejected.
C12_Witness ==
  EnumEncoded /\ scalar.value = Str(S_val3) /\ ~scalar.ok


\* typeof v === 'number'
IsNumber(v) == v.t \in {"num", "nan"}

\* v is a value the string property 'value' takes: defined and not an array.
IsTextual(v) == v.t \notin {"undef", "arr"}

\* The last call encoded {value: v} against the type Value.
ValueEncoded ==
  EncodeOfObject /\ lastOp.type = "Value" /\ KeySet(lastOp.value) = {"value"}

\* The last call encoded {value: {value: v}} against TypeWithValueType, whose
\* property value is declared of type Value.
ValuePropertyEncoded ==
  /\ EncodeOfObject
  /\ lastOp.type = "TypeWithValueType"
  /\ KeySet(lastOp.value) = {"value"}
  /\ Get(lastOp.value, "value").t = "obj"
  /\ KeySet(Get(lastOp.value, "value")) = {"value"}

\* C13: {value: v} against Value, whose children NumberValue and TextValue
\* both declare the required string property value, resolves to NumberValue
\* when v is a number and to TextValue when it is not (NumberValue, listed
\* first, is skipped); no value whose field is not a number is written with
\* xsi:type NumberValue.  (An undefined or array v fits neither child and the
\* encode fails.)
C13_SiblingDisambiguation ==
  /\ ValueEncoded =>
       /\ IsNumber(Get(lastOp.value, "value")) =>
            (lastOp.ok /\ lastOp.resolved = "NumberValue")
       /\ (IsTextual(Get(lastOp.value, "value")) /\ ~IsNumber(Get(lastOp.value, "value")))
            => (lastOp.ok /\ lastOp.resolved = "TextValue")
       /\ ~IsTextual(Get(lastOp.value, "value")) => ~lastOp.ok
       /\ lastOp.ok =>
            lastOp.xml = <<Open("value", "")>>
                           \o (IF Get(lastOp.value, "value") = Null THEN <<>>
                               ELSE TextOf(Escape(JsString(Get(lastOp.value, "value")))))
                           \o <<Close("value")>>
  /\ (ValuePropertyEncoded /\ lastOp.ok) =>
       /\ Len(RootTags(lastOp)) = 1
       /\ RootTags(lastOp)[1].type =
            IF IsNumber(Get(Get(lastOp.value, "value"), "value")) THEN "NumberValue"
            ELSE "TextValue"

\* {value: 'abc'} was encoded against Value and resolved to TextValue.
C13_Witness ==
  /\ ValueEncoded
  /\ Get(lastOp.value, "value") = Str(S_abc)
  /\ lastOp.ok
  /\ lastOp.resolved = "TextValue"


\* The last performOperation got an answer whose Body starts with a Fault.
FaultAnswered ==
  /\ svc.outcome # "none"
  /\ svc.requests > 0
  /\ svc.body # <<>>
  /\ svc.body[1].name = "Fault"

\* C14: when the first element of the response Body is a Fault,
\* performOperation returns no value: it throws an AdManagerServerFault, for
\* every operation and whatever the operation's response type.
C14_FaultThrowsServerFault ==
  FaultAnswered => (svc.outcome = "threw" /\ svc.error = "AdManagerServerFault")


\* The element carries a type attribute naming a type the index lacks.
UnknownTypeAttribute(element) ==
  TypeAttributeOf(element) # "" /\ TypeAttributeOf(element) \notin DOMAIN serviceTypes

\* C15: decoding an element whose type attribute names a type absent from
\* the index fails with 'Unrecognized type' whatever the declared type, and
\* the decoded-value cache never holds an entry for such an element, so the
\* same decode fails again.
C15_UnrecognizedTypeFails ==
  /\ (lastOp.op = "decode" /\ UnknownTypeAttribute(lastOp.element))
       => (~lastOp.ok /\ lastOp.err = E_UnrecognizedType)
  /\ \A key \in DOMAIN convertedObjectCache : ~UnknownTypeAttribute(key[2])

\* The same element with an unknown type attribute was decoded twice in a
\* row against a declared type other than AnimalType.
C15_Witness ==
  /\ lastOp.op = "decode" /\ prevOp.op = "decode"
  /\ UnknownTypeAttribute(lastOp.element)
  /\ lastOp.element = prevOp.element /\ lastOp.type = prevOp.type
  /\ lastOp.type = "HerdingDogType"
  /\ ~prevOp.ok /\ ~lastOp.ok


\* The type the decode of op resolves: the type attribute's, else the
\* declared one.
DecodeResolvedType(op) ==
  IF TypeAttributeOf(op.element) # "" THEN TypeAttributeOf(op.element) ELSE op.type

\* The tag names the claim accepts under a type: its flattened properties
\* and the own properties of each of its descendants.
AcceptedTags(soapObjectType) ==
  PropNames(getAllPropertiesForType(soapObjectType))
    \cup UNION {PropNames(serviceTypes[d].properties) : d \in Descendants(soapObjectType)}

\* The last call decoded an element of leaves against a type of the index.
DecodedLeaves ==
  /\ lastOp.op = "decode"
  /\ DecodeResolvedType(lastOp) \in DOMAIN serviceTypes
  /\ \A i \in 1..Len(lastOp.element.children) : lastOp.element.children[i].children = <<>>

\* C16: the decode of an element rejects it with 'is not valid' exactly when
\* one of its children has a tag name outside the flattened properties of
\* the resolved type and the own properties of its descendants.
C16_AcceptedTags ==
  DecodedLeaves =>
    ((~lastOp.ok /\ lastOp.err = E_NotValid)
       <=> \E i \in 1..Len(lastOp.element.children) :
             lastOp.element.children[i].name \notin AcceptedTags(DecodeResolvedType(lastOp)))


\* The type and its base types, the most derived first.
RECURSIVE BaseChain(_)
BaseChain(soapObjectType) ==
  IF soapObjectType = NoType THEN <<>>
  ELSE <<soapObjectType>> \o BaseChain(serviceTypes[soapObjectType].baseType)

\* The most derived type of the chain that declares the property.
DeclaringType(soapObjectType, name) ==
  LET chain == BaseChain(soapObjectType)
      declaring == {i \in 1..Len(chain) : name \in PropNames(serviceTypes[chain[i]].properties)}
  IN  chain[CHOOSE i \in declaring : \A j \in declaring : i <= j]

\* props holds each property declared along the base chain once, as its
\* most derived declaration has it.
FlattenedOverChain(soapObjectType, props) ==
  /\ PropNames(props)
       = UNION {PropNames(serviceTypes[BaseChain(soapObjectType)[i]].properties) :
                  i \in 1..Len(BaseChain(soapObjectType))}
  /\ Cardinality(PropNames(props)) = Len(props)
  /\ \A i \in 1..Len(props) :
       props[i] = PropNamed(serviceTypes[DeclaringType(soapObjectType, props[i].name)].properties,
                            props[i].name)

\* C17: getAllPropertiesForType merges the own properties over those of the
\* base chain, a derived declaration shadowing a base one, and after any
\* sequence of encode calls each memoized entry of the creator equals the
\* mapping computed afresh for its type.
C17_MemoizedEqualsFresh ==
  \A soapObjectType \in DOMAIN allPropertiesCache :
    /\ allPropertiesCache[soapObjectType] = getAllPropertiesForType(soapObjectType)
    /\ FlattenedOverChain(soapObjectType, allPropertiesCache[soapObjectType])

\* After two encode calls the cache holds the entry of a type that shadows
\* a property of its base type.
C17_Witness ==
  /\ lastOp.op = "encode" /\ prevOp.op = "encode"
  /\ \E soapObjectType \in DOMAIN allPropertiesCache :
       /\ serviceTypes[soapObjectType].baseType # NoType
       /\ PropNames(serviceTypes[soapObjectType].properties)
            \cap PropNames(serviceTypes[serviceTypes[soapObjectType].baseType].properties) # {}


\* A defined value of the wrong shape for the property: a sequence for a
\* property that is not an array, or no sequence for one that is.
ShapeMismatch(property, value) ==
  value # Undefined /\ (property.isArray # IsArray(value))

\* The XML of the entries from i on, each converted on its own as the only
\* entry of the property.
RECURSIVE RepeatedEntries(_, _, _)
RepeatedEntries(property, items, i) ==
  IF i > Len(items) THEN <<>>
  ELSE convertSoapObjectPropertyToXmlString(property, Arr(<<items[i]>>), <<>>).xml
         \o RepeatedEntries(property, items, i + 1)

\* The elements of the encoded object for an array property are those of its
\* entries, one element with the property's tag per entry, in the entries'
\* order.
ArrayRepeated(property, items) ==
  /\ ElementsNamed(EncodedRoot(lastOp), property.name)
       = ParseContent(RepeatedEntries(property, items, 1))
  /\ Len(ElementsNamed(EncodedRoot(lastOp), property.name)) = Len(items)

\* C18: an array property is encoded by repeating its tag once per entry, in
\* order, and the encoding fails when a declared array gets a defined value
\* that is no sequence and when a property that is not an array gets a
\* sequence.
C18_ArrayProperties ==
  EncodeOfObject =>
    /\ (\E i \in 1..Len(getAllPropertiesForType(lastOp.type)) :
          ShapeMismatch(getAllPropertiesForType(lastOp.type)[i],
                        Get(lastOp.value, getAllPropertiesForType(lastOp.type)[i].name)))
         => ~lastOp.ok
    /\ (lastOp.ok /\ NoRedeclaration(lastOp.resolved))
         => \A i \in 1..Len(getAllPropertiesForType(lastOp.resolved)) :
              LET property == getAllPropertiesForType(lastOp.resolved)[i]
              IN  (property.isArray /\ IsArray(Get(lastOp.value, property.name)))
                    => ArrayRepeated(property, Get(lastOp.value, property.name).items)

\* A string given for the array ss was rejected, then an array of two
\* entries was encoded for it.
C18_Witness ==
  /\ prevOp.op = "encode" /\ ~prevOp.ok /\ prevOp.err = E_NotArray
  /\ lastOp.op = "encode" /\ lastOp.ok
  /\ IsArray(Get(lastOp.value, "ss"))
  /\ Len(Get(lastOp.value, "ss").items) = 2
  /\ Len(ElementsNamed(EncodedRoot(lastOp), "ss")) = 2


\* What holds at every point of waitForReport: runReportJob was called once,
\* there were at most 12 polls, each after a sleep of its own, and the call
\* throws 'Report generation timed out.' exactly when the 12th poll still
\* answered IN_PROGRESS.
PollsBounded ==
  /\ report.pc # "idle" => report.runs = 1
  /\ report.polls <= 12
  /\ report.sleeps >= report.polls /\ report.sleeps <= report.polls + 1
  /\ report.totalWaitTime <= WAIT_FOR_REPORT_TIMEOUT
  /\ (report.pc = "done" /\ report.error = E_TimedOut)
       <=> (/\ report.pc = "done"
            /\ report.status = "IN_PROGRESS"
            /\ report.polls = 12
            /\ report.totalWaitTime = WAIT_FOR_REPORT_TIMEOUT)

\* C19: waitForReport terminates for every sequence of status answers: it
\* calls runReportJob once, sleeps and polls getReportJobStatus at most 12
\* times, one sleep before each poll, and throws 'Report generation timed
\* out.' when the status is still IN_PROGRESS after the last poll.
C19_WaitForReportTerminates ==
  /\ []PollsBounded
  /\ <>(report.pc = "done")

\* The 12th poll answered IN_PROGRESS and waitForReport threw the timeout.
C19_Witness ==
  /\ report.pc = "done"
  /\ report.polls = 12 /\ report.sleeps = 12
  /\ report.status = "IN_PROGRESS"
  /\ report.outcome = "threw" /\ report.error = E_TimedOut


\* The fields of the builder.
BuilderFields(b) ==
  <<b.columnsForSelect, b.tableForFrom, b.clauseForWhere, b.bindVariables, b.limit,
    b.offset>>

\* The last call was toStatement: it threw exactly when one of the SELECT
\* columns and the FROM table is set (non-empty) and the other is not; and
\* when the call before it was toStatement too, both gave the same.
ThrowsIffOneOfSelectFrom ==
  builder.last.op = "toStatement" =>
    /\ ~builder.last.ok
         <=> (Truthy(builder.columnsForSelect) # Truthy(builder.tableForFrom))
    /\ ~builder.last.ok => builder.last.err \in {E_FromRequired, E_SelectRequired}
    /\ builder.prev.op = "toStatement" => builder.prev = builder.last

\* C20: toStatement throws when exactly one of the SELECT columns and the
\* FROM table has been set (non-empty), otherwise it returns a statement; it
\* never changes the builder's fields, so two toStatement calls in a row
\* return equal statements.
C20_ToStatement ==
  /\ []ThrowsIffOneOfSelectFrom
  /\ [][builder'.last.op = "toStatement"
          => BuilderFields(builder') = BuilderFields(builder)]_vars

\* With the columns set and the table not, toStatement threw twice in a
\* row.
C20_Witness ==
  /\ builder.last.op = "toStatement" /\ builder.prev.op = "toStatement"
  /\ Truthy(builder.columnsForSelect) /\ ~Truthy(builder.tableForFrom)
  /\ ~builder.last.ok /\ builder.last.err = E_FromRequired


\* C21: when the encoding of an object succeeds, every key of the value is a
\* declared property (own or inherited) of the resolved type and every key
\* with something to write has its element in the output: what a failed
\* sibling consumed is not missing from the XML.
C21_NoKeyLeftOut ==
  EncodedObject =>
    /\ KeySet(lastOp.value) \subseteq PropNames(getAllPropertiesForType(lastOp.resolved))
    /\ WrittenKeys(lastOp.value)
         \subseteq {RootTagNames(lastOp)[i] : i \in 1..Len(RootTagNames(lastOp))}


\* The type and its descendants in the order of the search: the type, then
\* each child, in list order, followed by the child's own descendants.
RECURSIVE SearchOrder(_)
RECURSIVE SearchOrderOfChildren(_, _)
SearchOrderOfChildren(childTypes, i) ==
  IF i > Len(childTypes) THEN <<>>
  ELSE SearchOrder(childTypes[i]) \o SearchOrderOfChildren(childTypes, i + 1)
SearchOrder(soapObjectType) ==
  <<soapObjectType>>
    \o SearchOrderOfChildren(serviceTypes[soapObjectType].childTypes, 1)

\* The value is one of the type: no conflict, each of the type's properties
\* (own and inherited) converts, and no key of the value is left.
Fits(soapObjectType, value) ==
  /\ ~hasValueConflict(soapObjectType, value)
  /\ ObjectProperties(getAllPropertiesForType(soapObjectType), 1, value, <<>>,
                      KeySet(value), <<>>).ok
  /\ ObjectProperties(getAllPropertiesForType(soapObjectType), 1, value, <<>>,
                      KeySet(value), <<>>).keys = {}

\* {name, breed, role}, in any key order.
IsHerdingDogValue(value) ==
  /\ value.t = "obj"
  /\ KeySet(value) = {"name", "breed", "role"}
  /\ \A k \in KeySet(value) : Get(value, k).t = "str"

\* C22: the child-type search goes through the declared type's descendants
\* in list order, a child's descendants before the child's next sibling, and
\* stops at the first candidate: the resolved type of a successful encode is
\* in that order and no type before it fits the value.  A {name, breed, role}
\* declared as DogType resolves to HerdingDogType, is written as name, breed,
\* role, and as a property gets xsi:type HerdingDogType.
C22_SearchOrder ==
  EncodedObject =>
    /\ \E i \in 1..Len(SearchOrder(lastOp.type)) :
         /\ SearchOrder(lastOp.type)[i] = lastOp.resolved
         /\ \A j \in 1..(i - 1) : ~Fits(SearchOrder(lastOp.type)[j], lastOp.value)
    /\ (lastOp.type = "DogType" /\ IsHerdingDogValue(lastOp.value))
         => /\ lastOp.resolved = "HerdingDogType"
            /\ RootTags(lastOp) = <<[tag |-> "name", type |-> ""],
                                    [tag |-> "breed", type |-> ""],
                                    [tag |-> "role", type |-> ""]>>
    /\ (lastOp.type = "TypeWithDog" /\ IsHerdingDogValue(Get(lastOp.value, "dog")))
         => /\ RootTags(lastOp) = <<[tag |-> "dog", type |-> "HerdingDogType"]>>
            /\ [i \in 1..3 |-> EncodedRoot(lastOp).children[1].children[i].name]
                 = <<"name", "breed", "role">>

\* {role, name, breed} declared as DogType was encoded, after the same as
\* the property dog of TypeWithDog.
C22_Witness ==
  /\ EncodedObject
  /\ lastOp.type = "DogType" /\ IsHerdingDogValue(lastOp.value)
  /\ prevOp.op = "encode" /\ prevOp.ok /\ prevOp.type = "TypeWithDog"
  /\ IsHerdingDogValue(Get(prevOp.value, "dog"))


\* C23: whenever the encoding of an object fails, what it raises is a
\* defined error value (that of the last candidate tried when the child
\* search is exhausted), also when every child was skipped by the conflict
\* predicate or the child list is empty.
C23_DefinedError ==
  (EncodeOfObject /\ ~lastOp.ok) => lastOp.err # E_Undefined


\* The keys of the value last encoded that hold something other than an
\* array and have an element to write.
SingleValuedKeys ==
  {k \in WrittenKeys(lastOp.value) : ~IsArray(Get(lastOp.value, k))}

\* C24: in the XML of a successful object encode each key of the value that
\* is not an array yields at most one element, also when the resolved child
\* type declares again a property name of its base type.
C24_OneElementPerKey ==
  EncodedObject =>
    \A k \in SingleValuedKeys : Len(ElementsNamed(EncodedRoot(lastOp), k)) <= 1


\* What the children of the element last decoded convert to, one by one,
\* for the property of the given name.
ConvertedOccurrences(name) ==
  LET property == PropNamed(getAllValidPropertiesForType(DecodeResolvedType(lastOp), TRUE,
                                                         <<>>).props, name)
      occurrences == ElementsNamed(lastOp.element, name)
  IN  [i \in 1..Len(occurrences) |->
         convertXmlElementToSoapType(occurrences[i], property.type, <<>>, <<>>).value]

IsArrayProperty(name) ==
  PropNamed(getAllValidPropertiesForType(DecodeResolvedType(lastOp), TRUE, <<>>).props,
            name).isArray

\* C25: in the decoded object an array property holds what its children
\* convert to, in document order, whatever children of other properties
\* stand between them, and a property that is not an array holds what its
\* last occurrence converts to.
C25_ArraysInDocumentOrder ==
  (DecodedLeaves /\ lastOp.ok) =>
    \A i \in 1..Len(lastOp.element.children) :
      LET name == lastOp.element.children[i].name
      IN  IF IsArrayProperty(name)
          THEN SameValue(Get(lastOp.result, name),
                         Arr(SelectSeq(ConvertedOccurrences(name),
                                       LAMBDA v : v # Undefined)))
          ELSE SameValue(Get(lastOp.result, name),
                         ConvertedOccurrences(name)[Len(ConvertedOccurrences(name))])


\* waitForReport has ended after a poll answered status.
EndedOn(status) ==
  report.pc = "done" /\ report.polls >= 1 /\ report.status = status

\* What the end of waitForReport is for the last status polled: COMPLETED
\* has the download URL requested once, with the job's id and the options,
\* and the answer returned; FAILED has 'Failed to create report.' thrown and
\* no URL requested.
EndByStatus ==
  /\ (EndedOn("COMPLETED") /\ report.error # E_ServerFault)
       => /\ report.outcome = "returned"
          /\ report.result \in UrlAnswers
  /\ (EndedOn("COMPLETED") /\ report.urlCalls > 0)
       => /\ report.urlCalls = 1
          /\ report.urlJobId = report.jobId
          /\ report.urlOptions = report.reportDownloadOptions
  /\ (EndedOn("COMPLETED") /\ report.outcome = "threw") => report.error = E_ServerFault
  /\ EndedOn("FAILED")
       => /\ report.outcome = "threw"
          /\ report.error \in {E_FailedReport, E_ServerFault}
          /\ report.urlCalls = 0
  /\ report.urlCalls <= 1

\* C27: polling stops at the first poll whose status is not IN_PROGRESS, no
\* poll follows it; after COMPLETED getReportDownloadUrlWithOptions is called
\* exactly once with the job id and the options and its result is returned,
\* after FAILED 'Failed to create report.' is thrown.
C27_PollingStops ==
  /\ []EndByStatus
  /\ [][(report.pc = "polling" /\ report.status # "IN_PROGRESS")
          => report'.polls = report.polls /\ report'.sleeps = report.sleeps]_vars
  /\ [][(report.pc = "polling" /\ report.status = "COMPLETED")
          => (report'.urlCalls = 1 /\ report'.pc = "done")]_vars
  /\ [][(report.pc = "polling" /\ report.status = "FAILED")
          => (report'.error = E_FailedReport /\ report'.urlCalls = 0)]_vars

\* The third poll answered COMPLETED and the URL was returned for the
\* options the client passed.
C27_Witness ==
  /\ EndedOn("COMPLETED")
  /\ report.polls = 3
  /\ report.outcome = "returned"
  /\ report.urlCalls = 1
  /\ report.urlOptions = "TSV"

\* C28: waitForReport requests the download URL only when the last status it
\* observed is COMPLETED; for every other last status, known or not, it
\* throws and requests no URL.
C28_UrlOnlyWhenCompleted ==
  /\ report.urlCalls > 0 => report.status = "COMPLETED"
  /\ (report.pc = "done" /\ report.status # "COMPLETED") => report.outcome = "threw"


\* C29: a statement returned by toStatement is a snapshot: whatever is called
\* on the builder afterwards, the statement's query and bind-variable list
\* are those it was returned with.
C29_StatementIsSnapshot ==
  builder.held.op = "toStatement" =>
    /\ HeldStatement(builder).query = builder.held.query
    /\ HeldStatement(builder).values
         = (IF builder.held.hasValues THEN builder.held.values ELSE <<>>)


\* The operation of the call is not in the index, or its parameters do not
\* encode.
NoPayload(call) ==
  \/ call.operationName \notin DOMAIN serviceTypes
  \/ ~convertSoapObjectToXmlString(
        call.operationName,
        createRequestObjectFromParameterList(call.operationName, call.operationParameters),
        <<>>).ok

\* C30: a performOperation call whose operation is not in the index or whose
\* parameters fail to encode throws with no request sent: the count of
\* requests is the one before the call and no payload was built.
C30_NoRequestWithoutPayload ==
  [][(calls' = calls + 1 /\ NoPayload(svc'))
       => /\ svc'.outcome = "threw"
          /\ svc'.error = "Error"
          /\ svc'.requests = svc.requests
          /\ svc'.payload = <<>>]_vars

\* After a call that was answered, getAnimal('Fido', 'abc') threw on its
\* parameter: one request in all.
C30_Witness ==
  /\ calls = 2
  /\ svc.operationName = "getAnimal"
  /\ svc.operationParameters = <<Str(S_Fido), Str(S_abc)>>
  /\ svc.outcome = "threw"
  /\ svc.requests = 1

=============================================================================
